---- MODULE Spec2Model ----
(***************************************************************************)
(* Model of the regular-expression engine RESearch (RESearch.cxx): the     *)
(* pattern compiler DoCompile, the compile cache of Compile, and the       *)
(* backtracking matcher Execute / PMatch over a CharacterIndexer.          *)
(*                                                                         *)
(* Bytes are integers 0..255.  A pattern is a sequence of bytes; reading   *)
(* past its end yields the terminating NUL.  The program buffer nfa and    *)
(* the bit table bittab are 0-indexed functions, as the arrays they model. *)
(***************************************************************************)
EXTENDS Integers, Sequences, FiniteSets, TLC

(***************************************************************************)
(* Bounds of the model.                                                    *)
(***************************************************************************)
\* longest document explored by the matching specification
MaxDocLen == 3

(***************************************************************************)
(* Program constants.                                                      *)
(***************************************************************************)
OKP == 1
NOP == 0

CHR == 1
ANY == 2
CCL == 3
BOL == 4
EOL == 5
BOT == 6
EOT == 7
BOW == 8
EOW == 9
REF == 10
CLO == 11
CLQ == 12
LCLO == 13
EXP_MATCH_WORD_START == 14
EXP_MATCH_WORD_END == 15
EXP_MATCH_TO_WORD_END == 16
EXP_MATCH_TO_WORD_END_OPT == 17
END == 0

BITIND == 7

ANYSKIP == 2
CHRSKIP == 3
CCLSKIP == 34

\* RESearch.h (not among the sources): sizes of the engine's tables
MAXTAG == 10
MAXNFA == 2048
MAXCHR == 256
BITBLK == 32
NOTFOUND == -1

\* FindOption values passed as flags
FindOptionNone == "None"
FindOptionPosix == "Posix"

\* the null pointer, as a pattern address and as Compile's "no error"
nullptr == "nullptr"

(***************************************************************************)
(* Character codes (ASCII) used by the compiler's switch statements and by *)
(* the inputs of the specifications.                                       *)
(***************************************************************************)
ch == [ nul |-> 0, bel |-> 7, bs |-> 8, tab |-> 9, lf |-> 10, vt |-> 11,
        ff |-> 12, cr |-> 13, esc |-> 27, space |-> 32, dquote |-> 34,
        hash |-> 35, dollar |-> 36, quote |-> 39,
        lparen |-> 40, rparen |-> 41, star |-> 42, plus |-> 43, comma |-> 44,
        minus |-> 45, dot |-> 46, slash |-> 47, d0 |-> 48, d1 |-> 49, d2 |-> 50,
        d3 |-> 51, d4 |-> 52, d9 |-> 57, colon |-> 58, semicolon |-> 59,
        lt |-> 60, equals |-> 61, gt |-> 62, quest |-> 63, at |-> 64,
        A |-> 65, B |-> 66, C |-> 67, D |-> 68, E |-> 69, F |-> 70, H |-> 72,
        I |-> 73, L |-> 76, N |-> 78, S |-> 83, T |-> 84, W |-> 87, X |-> 88, Y |-> 89, Z |-> 90,
        lbracket |-> 91, bslash |-> 92, rbracket |-> 93, caret |-> 94,
        underscore |-> 95, backtick |-> 96,
        a |-> 97, b |-> 98, c |-> 99, d |-> 100, e |-> 101, f |-> 102,
        g |-> 103, h |-> 104, i |-> 105, k |-> 107, l |-> 108, m |-> 109,
        n |-> 110, o |-> 111, p |-> 112, r |-> 114, s |-> 115, t |-> 116,
        u |-> 117, v |-> 118, w |-> 119, x |-> 120, y |-> 121, z |-> 122,
        bar |-> 124 ]

\* *(pattern + k): the byte at offset k, NUL at and after the end
P(pattern, k) == IF k >= 0 /\ k < Len(pattern) THEN pattern[k + 1] ELSE 0

Pow2(k) == <<1, 2, 4, 8, 16, 32, 64, 128>>[k + 1]

\* bit k of byte b
Bit(b, k) == (b \div Pow2(k)) % 2

\* word characters of the default character class table
iswordc(c) ==
    \/ c >= ch.d0 /\ c <= ch.d9
    \/ c >= ch.a /\ c <= ch.z
    \/ c >= ch.A /\ c <= ch.Z
    \/ c = ch.underscore

(***************************************************************************)
(* The bit table.                                                          *)
(***************************************************************************)
ZeroBits == [n \in 0..(BITBLK - 1) |-> 0]

\* bittab[c >> 3] |= 1 << (c & BITIND)
ChSet(bittab_, c) ==
    [bittab_ EXCEPT ![c \div 8] =
        IF Bit(@, c % (BITIND + 1)) = 1 THEN @ ELSE @ + Pow2(c % (BITIND + 1))]

\* ChSet for every character of a set (the loops over 0..MAXCHR-1)
ChSetAll(bittab_, chars) ==
    [n \in 0..(BITBLK - 1) |->
        LET B(k) == IF Bit(bittab_[n], k) = 1 \/ (8 * n + k) \in chars
                    THEN Pow2(k) ELSE 0
        IN B(0) + B(1) + B(2) + B(3) + B(4) + B(5) + B(6) + B(7)]

\* the characters ChSetWithCase(c, caseSensitive) sets
WithCase(c, caseSensitive) ==
    IF ~caseSensitive /\ c >= ch.a /\ c <= ch.z THEN {c, c - ch.a + ch.A}
    ELSE IF ~caseSensitive /\ c >= ch.A /\ c <= ch.Z THEN {c, c - ch.A + ch.a}
    ELSE {c}

\* variant of ChSetWithCase that sets the character alone
ChSetWithCase_plain(bittab_, c, caseSensitive) == ChSet(bittab_, c)

ChSetWithCase(bittab_, c, caseSensitive) ==
    IF caseSensitive THEN ChSet(bittab_, c)
    ELSE IF c >= ch.a /\ c <= ch.z THEN ChSet(ChSet(bittab_, c), c - ch.a + ch.A)
    ELSE IF c >= ch.A /\ c <= ch.Z THEN ChSet(ChSet(bittab_, c), c - ch.A + ch.a)
    ELSE ChSet(bittab_, c)

\* variant of ChSetRange that stops before the end of the range
ChSetRange_open(bittab_, c1, c2, caseSensitive) ==
    ChSetAll(bittab_, UNION {WithCase(c % MAXCHR, caseSensitive) : c \in c1..(c2 - 1)})

\* while (c1 <= c2) ChSetWithCase(c1++, caseSensitive)
ChSetRange(bittab_, c1, c2, caseSensitive) ==
    ChSetAll(bittab_, UNION {WithCase(c % MAXCHR, caseSensitive) : c \in c1..c2})

escapeValue(c) ==
    CASE c = ch.a -> ch.bel
      [] c = ch.b -> ch.bs
      [] c = ch.f -> ch.ff
      [] c = ch.n -> ch.lf
      [] c = ch.r -> ch.cr
      [] c = ch.t -> ch.tab
      [] c = ch.v -> ch.vt
      [] c = ch.e -> ch.esc
      [] OTHER -> 0

GetHexDigit(c) ==
    IF c >= ch.d0 /\ c <= ch.d9 THEN c - ch.d0
    ELSE IF c >= ch.a /\ c <= ch.f THEN c - ch.a + 10
    ELSE IF c >= ch.A /\ c <= ch.A + 5 THEN c - ch.A + 10
    ELSE -1

\* (GetHexDigit(ch1) << 4) | GetHexDigit(ch2): negative when either digit is
GetHexValue(c1, c2) ==
    IF GetHexDigit(c1) < 0 \/ GetHexDigit(c2) < 0 THEN -1
    ELSE GetHexDigit(c1) * 16 + GetHexDigit(c2)

\* variant of isinset that finds no character in any set
isinset_never(buf, ap, c) == FALSE

\* ap[c >> 3] & (1 << (c & BITIND)), on the bitset at offset ap of a buffer
isinset(buf, ap, c) == Bit(buf[ap + (c \div 8)], c % (BITIND + 1)) # 0

(***************************************************************************)
(* GetBackslashExpression: the character after a backslash, at offset i.   *)
(* result >= 0 is a plain character, -1 a class that was added to bittab.  *)
(***************************************************************************)
GetBackslashExpression(pattern, i, bittab_) ==
    LET bsc == P(pattern, i)
        All == 0..(MAXCHR - 1)
    IN IF bsc = 0 THEN [result |-> ch.bslash, incr |-> 0, bittab |-> bittab_]
       ELSE
        CASE bsc \in {ch.a, ch.b, ch.n, ch.f, ch.r, ch.t, ch.v, ch.e} ->
                [result |-> escapeValue(bsc), incr |-> 0, bittab |-> bittab_]
          [] bsc = ch.x ->
                LET hexValue == GetHexValue(P(pattern, i + 1), P(pattern, i + 2))
                IN IF hexValue >= 0
                   THEN [result |-> hexValue, incr |-> 2, bittab |-> bittab_]
                   ELSE [result |-> ch.x, incr |-> 0, bittab |-> bittab_]
          [] bsc = ch.d ->
                [result |-> -1, incr |-> 0,
                 bittab |-> ChSetAll(bittab_, ch.d0..ch.d9)]
          [] bsc = ch.D ->
                [result |-> -1, incr |-> 0,
                 bittab |-> ChSetAll(bittab_,
                              {c \in All : c < ch.d0 \/ c > ch.d9})]
          [] bsc = ch.s ->
                [result |-> -1, incr |-> 0,
                 bittab |-> ChSetAll(bittab_,
                              {ch.space, ch.tab, ch.lf, ch.cr, ch.ff, ch.vt})]
          [] bsc = ch.S ->
                [result |-> -1, incr |-> 0,
                 bittab |-> ChSetAll(bittab_,
                              {c \in All : c # ch.space /\ ~(c >= 9 /\ c <= 13)})]
          [] bsc = ch.w ->
                [result |-> -1, incr |-> 0,
                 bittab |-> ChSetAll(bittab_, {c \in All : iswordc(c)})]
          [] bsc = ch.W ->
                [result |-> -1, incr |-> 0,
                 bittab |-> ChSetAll(bittab_, {c \in All : ~iswordc(c)})]
          [] OTHER -> [result |-> bsc, incr |-> 0, bittab |-> bittab_]

(***************************************************************************)
(* DoCompile.  The compiler's locals are the fields of a record c:         *)
(* nfa, bittab, tagstk (the engine's arrays), mp and sp (offsets into      *)
(* nfa), i (offset of the current pattern character), tagi, tagc, and err  *)
(* (nullptr while no error was returned).                                  *)
(***************************************************************************)
Poke(buf, k, v) == IF k >= 0 /\ k < MAXNFA THEN [buf EXCEPT ![k] = v] ELSE buf

\* variant of badpat that leaves the program buffer as it is
badpat_keep(nfa_) == nfa_

\* #define badpat(x) (*nfa = END, x)
badpat(nfa_) == [nfa_ EXCEPT ![0] = END]

Bad(c, msg) == [c EXCEPT !.nfa = badpat(c.nfa), !.err = msg]

\* *mp++ = v
Emit1(c, v) == [c EXCEPT !.nfa = Poke(@, c.mp, v), !.mp = @ + 1]

\* *mp++ = v1; *mp++ = v2
Emit2(c, v1, v2) ==
    [c EXCEPT !.nfa = Poke(Poke(@, c.mp, v1), c.mp + 1, v2), !.mp = @ + 2]

\* writes of consecutive bytes vals at buf[from], buf[from + 1], ...
Patch(buf, from, vals) ==
    LET \* vals[j] when there is a j-th write, else the byte already there
        V(j, old) == IF j <= Len(vals) THEN vals[j] ELSE old
        \* the writes vals[n + 1] .. vals[n + 8]
        Write8(b, n) ==
            [b EXCEPT ![from + n] = V(n + 1, @), ![from + n + 1] = V(n + 2, @),
                      ![from + n + 2] = V(n + 3, @), ![from + n + 3] = V(n + 4, @),
                      ![from + n + 4] = V(n + 5, @), ![from + n + 5] = V(n + 6, @),
                      ![from + n + 6] = V(n + 7, @), ![from + n + 7] = V(n + 8, @)]
        \* the blocks of eight writes numbered lo .. hi
        RECURSIVE Blocks(_, _, _)
        Blocks(b, lo, hi) ==
            IF lo > hi THEN b
            ELSE IF lo = hi THEN Write8(b, 8 * lo)
            ELSE Blocks(Blocks(b, lo, (lo + hi) \div 2), (lo + hi) \div 2 + 1, hi)
    IN IF Len(vals) <= 8 * BITBLK
       THEN Blocks(buf, 0, (Len(vals) + 7) \div 8 - 1)
       ELSE [k \in DOMAIN buf |->
                IF k >= from /\ k < from + Len(vals) THEN vals[k - from + 1]
                ELSE buf[k]]

\* variant of EmitBits that writes the bit table without the xor mask
EmitBits_plain(c, mask) ==
    [c EXCEPT !.nfa = Patch(@, c.mp, [n \in 1..BITBLK |-> c.bittab[n - 1]]),
              !.mp = @ + BITBLK,
              !.bittab = ZeroBits]

\* for (n = 0; n < BITBLK; bittab[n++] = 0) *mp++ = mask ^ bittab[n];
EmitBits(c, mask) ==
    LET bits == c.bittab
        vals == [n \in 1..BITBLK |->
                   IF mask = 0 THEN bits[n - 1] ELSE 255 - bits[n - 1]]
    IN [c EXCEPT !.nfa = Patch(@, c.mp, vals),
                 !.mp = @ + BITBLK,
                 !.bittab = ZeroBits]

RECURSIVE SetLoop(_, _, _, _)
\* while (*p && *p != ']') { ... } of case '['
SetLoop(c, pattern, caseSensitive, prevChar) ==
    LET cur == P(pattern, c.i)
        nxt == P(pattern, c.i + 1)
    IN
    IF cur = 0 \/ cur = ch.rbracket THEN c
    ELSE IF cur = ch.minus THEN
        IF prevChar < 0 THEN
            \* previous definition was a class like \d: literal dash
            SetLoop([c EXCEPT !.bittab = ChSet(@, ch.minus), !.i = @ + 1],
                    pattern, caseSensitive, ch.minus)
        ELSE IF nxt # 0 THEN
            IF nxt # ch.rbracket THEN
                LET c1 == prevChar + 1
                    i1 == c.i + 1
                    c2 == P(pattern, i1)
                IN IF c2 = ch.bslash THEN
                       IF P(pattern, i1 + 1) = 0 THEN Bad(c, "Missing ]")
                       ELSE LET RangeTo(g) ==
                                  IF g.result >= 0 THEN
                                     SetLoop([c EXCEPT
                                                !.bittab = ChSetRange(ChSet(g.bittab, g.result),
                                                                      c1, g.result, caseSensitive),
                                                !.i = i1 + 1 + g.incr + 1],
                                             pattern, caseSensitive, g.result)
                                  ELSE
                                     \* class after the dash: literal dash
                                     SetLoop([c EXCEPT !.bittab = ChSet(g.bittab, ch.minus),
                                                       !.i = i1 + 1 + g.incr + 1],
                                             pattern, caseSensitive, ch.minus)
                            IN RangeTo(GetBackslashExpression(pattern, i1 + 1, c.bittab))
                   ELSE
                       SetLoop([c EXCEPT !.bittab = ChSetRange(@, c1, c2, caseSensitive),
                                         !.i = i1 + 1],
                               pattern, caseSensitive, prevChar)
            ELSE
                \* dash before the ]: literal dash
                SetLoop([c EXCEPT !.bittab = ChSet(@, ch.minus), !.i = @ + 1],
                        pattern, caseSensitive, ch.minus)
        ELSE Bad(c, "Missing ]")
    ELSE IF cur = ch.bslash /\ nxt # 0 THEN
        LET Escaped(g) ==
              IF g.result >= 0 THEN
                 SetLoop([c EXCEPT !.bittab = ChSet(g.bittab, g.result),
                                   !.i = c.i + 1 + g.incr + 1],
                         pattern, caseSensitive, g.result)
              ELSE
                 SetLoop([c EXCEPT !.bittab = g.bittab, !.i = c.i + 1 + g.incr + 1],
                         pattern, caseSensitive, -1)
        IN Escaped(GetBackslashExpression(pattern, c.i + 1, c.bittab))
    ELSE
        SetLoop([c EXCEPT !.bittab = ChSetWithCase(@, cur, caseSensitive), !.i = @ + 1],
                pattern, caseSensitive, cur)

\* case '[': match char class
CompileSet(c, pattern, caseSensitive) ==
    LET \* if (*++p == '^') { mask = '\377'; i++; p++; }
        neg == P(pattern, c.i + 1) = ch.caret
        mask == IF neg THEN 255 ELSE 0
        Negate(c1) == IF neg THEN [c1 EXCEPT !.i = @ + 1] ELSE c1
        \* the real dash, the real brace, then the while loop
        Members(c2) ==
            LET dash == P(pattern, c2.i) = ch.minus
                i3 == IF dash THEN c2.i + 1 ELSE c2.i
                bits3 == IF dash THEN ChSet(c2.bittab, ch.minus) ELSE c2.bittab
                brace == P(pattern, i3) = ch.rbracket
                i4 == IF brace THEN i3 + 1 ELSE i3
                bits4 == IF brace THEN ChSet(bits3, ch.rbracket) ELSE bits3
                prevChar == IF brace THEN ch.rbracket
                            ELSE IF dash THEN ch.minus ELSE 0
            IN SetLoop([c2 EXCEPT !.i = i4, !.bittab = bits4],
                       pattern, caseSensitive, prevChar)
        \* if (!*p) return badpat("Missing ]"); then the bitset is written
        Close(r) == IF r.err # nullptr THEN r
                    ELSE IF P(pattern, r.i) = 0 THEN Bad(r, "Missing ]")
                    ELSE EmitBits(r, mask)
    IN Close(Members(Negate([Emit1(c, CCL) EXCEPT !.i = @ + 1])))

\* case '*', '+', '?'
CompileClosure(c, pattern) ==
    LET cur == P(pattern, c.i)
        lp == c.sp
        op == c.nfa[lp]
    IN IF c.i = 0 THEN Bad(c, "Empty closure")
       ELSE IF op = CLO \/ op = LCLO THEN [c EXCEPT !.sp = lp]
       ELSE IF op \in {BOL, BOT, EOT, BOW, EOW, REF} THEN Bad(c, "Illegal closure")
       ELSE IF cur = ch.quest /\ op = EXP_MATCH_TO_WORD_END THEN
            [c EXCEPT !.nfa = Poke(@, lp, EXP_MATCH_TO_WORD_END_OPT), !.sp = lp]
       ELSE
          LET plus == cur = ch.plus
              len == c.mp - lp
              \* for (sp = mp; lp < sp; lp++) *mp++ = *lp;
              mp1 == IF plus THEN c.mp + len ELSE c.mp
              lp1 == IF plus THEN c.mp ELSE lp
              \* *mp++ = END; *mp++ = END; sp = mp;
              sp1 == mp1 + 2
              closure == IF cur = ch.quest THEN CLQ
                         ELSE IF P(pattern, c.i + 1) = ch.quest THEN LCLO
                         ELSE CLO
              old == c.nfa
              atom == [k \in 1..len |-> old[lp + k - 1]]
              copied == IF plus THEN Patch(old, c.mp, atom) ELSE old
              \* while (--mp > lp) *mp = mp[-1]; then *mp = closure opcode
              shifted == Patch(copied, lp1, <<closure>> \o atom \o <<END>>)
          IN [c EXCEPT !.nfa = shifted, !.mp = sp1, !.sp = lp1]

\* tagstk[++tagi] = tagc; *mp++ = BOT; *mp++ = tagc++;
OpenTag(c, tooMany) ==
    IF c.tagc < MAXTAG
    THEN [Emit2(c, BOT, c.tagc) EXCEPT !.tagstk = [@ EXCEPT ![c.tagi + 1] = c.tagc],
                                       !.tagi = @ + 1,
                                       !.tagc = @ + 1]
    ELSE Bad(c, tooMany)

\* variant of CloseTag that closes a group with nothing in it
CloseTag_empty(c, nullPattern, unmatched) ==
    IF c.tagi > 0
    THEN [Emit2(c, EOT, c.tagstk[c.tagi]) EXCEPT !.tagi = @ - 1]
    ELSE Bad(c, unmatched)

\* *mp++ = EOT; *mp++ = tagstk[tagi--];
CloseTag(c, nullPattern, unmatched) ==
    IF c.nfa[c.sp] = BOT THEN Bad(c, nullPattern)
    ELSE IF c.tagi > 0
    THEN [Emit2(c, EOT, c.tagstk[c.tagi]) EXCEPT !.tagi = @ - 1]
    ELSE Bad(c, unmatched)

\* case '\\': tags, backrefs...
CompileBackslash(c0, pattern, posix) ==
    LET c == [c0 EXCEPT !.i = @ + 1]
        cur == P(pattern, c.i)
    IN CASE cur = ch.lt -> Emit1(c, BOW)
         [] cur = ch.gt ->
              IF c.nfa[c.sp] = BOW THEN Bad(c, "Null pattern inside \\<\\>")
              ELSE Emit1(c, EOW)
         [] cur = ch.h -> Emit1(c, EXP_MATCH_WORD_START)
         [] cur = ch.H ->
              IF c.nfa[c.sp] = EXP_MATCH_WORD_START
              THEN Bad(c, "Null pattern inside \\h\\H")
              ELSE Emit1(c, EXP_MATCH_WORD_END)
         [] cur = ch.i -> Emit1(c, EXP_MATCH_TO_WORD_END)
         [] cur >= ch.d1 /\ cur <= ch.d9 ->
              LET n == cur - ch.d0
              IN IF c.tagi > 0 /\ c.tagstk[c.tagi] = n THEN Bad(c, "Cyclical reference")
                 ELSE IF c.tagc > n THEN Emit2(c, REF, n)
                 ELSE Bad(c, "Undetermined reference")
         [] OTHER ->
              IF ~posix /\ cur = ch.lparen THEN OpenTag(c, "Too many \\(\\) pairs")
              ELSE IF ~posix /\ cur = ch.rparen
              THEN CloseTag(c, "Null pattern inside \\(\\)", "Unmatched \\)")
              ELSE LET Escaped(g) ==
                         IF g.result >= 0
                         THEN Emit2([c EXCEPT !.i = @ + g.incr, !.bittab = g.bittab],
                                    CHR, g.result)
                         ELSE EmitBits(Emit1([c EXCEPT !.i = @ + g.incr,
                                                       !.bittab = g.bittab], CCL), 0)
                   IN Escaped(GetBackslashExpression(pattern, c.i, c.bittab))

\* default: an ordinary char
CompileOrdinary(c, pattern, caseSensitive, posix) ==
    LET cur == P(pattern, c.i)
    IN IF posix /\ cur = ch.lparen THEN OpenTag(c, "Too many () pairs")
       ELSE IF posix /\ cur = ch.rparen
       THEN CloseTag(c, "Null pattern inside ()", "Unmatched )")
       ELSE LET cc == IF cur = 0 THEN ch.bslash ELSE cur
            IN IF caseSensitive \/ ~iswordc(cc) THEN Emit2(c, CHR, cc)
               ELSE EmitBits([Emit1(c, CCL) EXCEPT
                                 !.bittab = ChSetWithCase(@, cc, FALSE)], 0)

\* the body of the for loop: switch (*p) { ... } sp = lp;
CompileChar(c, pattern, caseSensitive, posix) ==
    LET cur == P(pattern, c.i)
        lp == c.mp
        SetSp(r) == IF r.err # nullptr THEN r ELSE [r EXCEPT !.sp = lp]
    IN CASE cur = ch.dot -> SetSp(Emit1(c, ANY))
         [] cur = ch.caret ->
              SetSp(IF c.i = 0 THEN Emit1(c, BOL) ELSE Emit2(c, CHR, cur))
         [] cur = ch.dollar ->
              SetSp(IF P(pattern, c.i + 1) = 0 THEN Emit1(c, EOL) ELSE Emit2(c, CHR, cur))
         [] cur = ch.lbracket -> SetSp(CompileSet(c, pattern, caseSensitive))
         [] cur \in {ch.star, ch.plus, ch.quest} -> CompileClosure(c, pattern)
         [] cur = ch.bslash -> SetSp(CompileBackslash(c, pattern, posix))
         [] OTHER -> SetSp(CompileOrdinary(c, pattern, caseSensitive, posix))

RECURSIVE CompileLoop(_, _, _, _, _)
\* for (int i = 0; i < length; i++, p++) { if (mp > mpMax) ...; ... }
CompileLoop(c, pattern, length, caseSensitive, posix) ==
    IF c.err # nullptr \/ c.i >= length THEN c
    ELSE IF c.mp > MAXNFA - BITBLK - 10 THEN Bad(c, "Pattern too long")
    ELSE LET \* i++, p++ unless the body returned
             Advance(r) == IF r.err # nullptr THEN r ELSE [r EXCEPT !.i = @ + 1]
         IN CompileLoop(Advance(CompileChar(c, pattern, caseSensitive, posix)),
                        pattern, length, caseSensitive, posix)

(***************************************************************************)
(* An engine is the record of RESearch's members that Compile reads and    *)
(* writes: nfa, bittab, tagstk, sta.  DoCompile returns the engine after   *)
(* the call and the error string (nullptr on success).                     *)
(***************************************************************************)
DoCompile(eng, ptr, pattern, length, caseSensitive, posix) ==
    IF ptr = nullptr \/ length = 0 THEN
        IF eng.sta # 0 THEN [eng |-> eng, err |-> nullptr]
        ELSE [eng |-> [eng EXCEPT !.nfa = badpat(@)],
              err |-> "No previous regular expression"]
    ELSE
        LET c0 == [nfa |-> eng.nfa, bittab |-> eng.bittab, tagstk |-> eng.tagstk,
                   mp |-> 0, sp |-> 0, i |-> 0, tagi |-> 0, tagc |-> 1,
                   err |-> nullptr]
            out(r, s) == [nfa |-> r.nfa, bittab |-> r.bittab, tagstk |-> r.tagstk,
                          sta |-> s]
            \* the code after the for loop, c being the locals the loop left
            AfterLoop(c) ==
                IF c.err # nullptr THEN [eng |-> out(c, NOP), err |-> c.err]
                ELSE IF c.tagi > 0
                THEN [eng |-> out(Bad(c, "x"), NOP),
                      err |-> IF posix THEN "Unmatched (" ELSE "Unmatched \\("]
                ELSE [eng |-> out(Emit1(c, END), OKP), err |-> nullptr]
        IN AfterLoop(CompileLoop(c0, pattern, length, caseSensitive, posix))

(***************************************************************************)
(* State of one RESearch engine and of its caller.                         *)
(*   nfa .. cachedPattern   the members of RESearch                        *)
(*   call     the last call made on the engine, with its arguments and     *)
(*            results; for Execute also the start positions Execute tried  *)
(*            and the path of the match PMatch returned (history only),    *)
(*            and the capture table as it was before the call (pre)        *)
(*   hist     history of the Compile calls: the arguments and error of the  *)
(*            last Compile call (lastc, with cleared set by a later        *)
(*            ClearCache), and valid, the outcome of the last Compile call *)
(*            that ran the compiler: "none", "ok" or "error"; wasOk tells   *)
(*            whether some Compile call has compiled successfully          *)
(*   comp     the Compile call in progress when the compiler is followed   *)
(*            one pattern character at a time: its arguments and the       *)
(*            locals of DoCompile; calls counts the Compile calls begun    *)
(*            that way                                                     *)
(***************************************************************************)
VARIABLES nfa, bittab, tagstk, sta, bol, failure, bopat, eopat,
          previousPattern, previousLength, previousFlags, cachedPattern,
          call, hist, comp

(***************************************************************************)
(* The state of the SQL lexer (LexSQL.cxx), which shares no state with the *)
(* engine above:                                                           *)
(*   styler   the document seen through the Accessor: its text, the style  *)
(*            of every position and the fold level word of every line      *)
(*   sc       the StyleContext of the running ColouriseSqlDoc call         *)
(*   fold     the local variables of the running FoldSqlDoc call           *)
(*   pc       what is running: "idle", "colourise" or "fold"               *)
(*   trail    history, not state of the program: the calls made on the     *)
(*            document and the results a property compares                 *)
(***************************************************************************)
VARIABLES styler, sc, fold, pc, trail

reVars == <<nfa, bittab, tagstk, sta, bol, failure, bopat, eopat,
            previousPattern, previousLength, previousFlags, cachedPattern,
            call, hist, comp>>

sqlVars == <<styler, sc, fold, pc, trail>>

vars == <<nfa, bittab, tagstk, sta, bol, failure, bopat, eopat,
          previousPattern, previousLength, previousFlags, cachedPattern,
          call, hist, comp, styler, sc, fold, pc, trail>>

(***************************************************************************)
(* The CharacterIndexer over a document of single-byte characters.         *)
(***************************************************************************)
CharAt(doc, pos) == IF pos >= 0 /\ pos < Len(doc) THEN doc[pos + 1] ELSE 0

MovePositionOutsideChar(doc, pos, moveDir) == pos

NextPosition(doc, pos, moveDir) ==
    IF pos + moveDir < 0 THEN 0
    ELSE IF pos + moveDir > Len(doc) THEN Len(doc)
    ELSE pos + moveDir

WordCharacterClass(c) ==
    IF iswordc(c) THEN "word"
    ELSE IF c = ch.space \/ (c >= 9 /\ c <= 13) \/ c = 0 THEN "space"
    ELSE "punctuation"

IsWordStartAt(doc, pos) ==
    IF pos >= Len(doc) THEN FALSE
    ELSE IF pos >= 0 THEN
        LET ccPos == WordCharacterClass(CharAt(doc, pos))
            ccPrev == IF pos > 0 THEN WordCharacterClass(CharAt(doc, pos - 1))
                      ELSE "space"
        IN ccPos \in {"word", "punctuation"} /\ ccPos # ccPrev
    ELSE TRUE

IsWordEndAt(doc, pos) ==
    IF pos <= 0 THEN FALSE
    ELSE IF pos <= Len(doc) THEN
        LET ccPos == IF pos < Len(doc) THEN WordCharacterClass(CharAt(doc, pos))
                     ELSE "space"
            ccPrev == WordCharacterClass(CharAt(doc, pos - 1))
        IN ccPrev \in {"word", "punctuation"} /\ ccPrev # ccPos
    ELSE TRUE

RECURSIVE ExtendWordSelect(_, _, _)
ExtendWordSelect(doc, pos, delta) ==
    IF delta < 0 THEN
        IF pos > 0 /\ pos <= Len(doc)
        THEN LET ccStart == WordCharacterClass(CharAt(doc, pos - 1))
                 run == {q \in 0..pos :
                           \A k \in q..(pos - 1) :
                              WordCharacterClass(CharAt(doc, k)) = ccStart}
             IN CHOOSE q \in run : \A q2 \in run : q <= q2
        ELSE pos
    ELSE
        IF pos >= 0 /\ pos < Len(doc)
        THEN LET ccStart == WordCharacterClass(CharAt(doc, pos))
                 run == {q \in pos..Len(doc) :
                           \A k \in pos..(q - 1) :
                              WordCharacterClass(CharAt(doc, k)) = ccStart}
             IN CHOOSE q \in run : \A q2 \in run : q >= q2
        ELSE pos

(***************************************************************************)
(* PMatch.  t holds the members PMatch reads and writes: bopat, eopat,     *)
(* failure, bol, and history: qoffs, the steps llp += qoff the closure     *)
(* loops took, and stuck, set when a loop of Execute or PMatch took a step *)
(* that does not move its position on, after which it would never end.     *)
(* offset is the caller's *offset, or NoOffset.                            *)
(* g is history: gb/ge are the group bounds written on the path that       *)
(* PMatch returns (writes of abandoned attempts are not in it), and log    *)
(* lists the REF and closure steps of that path.                           *)
(***************************************************************************)
\* a null offset pointer (a hint written through offset is never 0)
NoOffset == 0

NoTags == [n \in 0..(MAXTAG - 1) |-> NOTFOUND]

NoPath == [gb |-> NoTags, ge |-> NoTags, log |-> <<>>]

\* variant of OffsetHint that passes a hint of 0 on
OffsetHint_zero(doc, lp, moveDir, e, offset) ==
    IF offset = NoOffset THEN offset
    ELSE IF e = lp THEN NextPosition(doc, lp, moveDir) - lp ELSE e - lp

\* e = (e == lp) ? NextPosition(lp, moveDir) - lp : e - lp;
\* *offset = (e == 0) ? moveDir : e;
OffsetHint(doc, lp, moveDir, e, offset) ==
    IF offset = NoOffset THEN offset
    ELSE LET e1 == IF e = lp THEN NextPosition(doc, lp, moveDir) - lp ELSE e - lp
         IN IF e1 = 0 THEN moveDir ELSE e1

RECURSIVE RefLoop(_, _, _, _)
\* while (bp < ep) if (ci.CharAt(bp++) != ci.CharAt(lp++)) return NOTFOUND;
RefLoop(doc, bp, ep, lp) ==
    IF bp >= ep THEN lp
    ELSE IF CharAt(doc, bp) # CharAt(doc, lp) THEN NOTFOUND
    ELSE RefLoop(doc, bp + 1, ep, lp + 1)

RECURSIVE ScanChr(_, _, _, _)
\* while ((lp < endp) && (c == ci.CharAt(lp))) lp++;
ScanChr(doc, lp, endp, c) ==
    IF lp < endp /\ c = CharAt(doc, lp) THEN ScanChr(doc, lp + 1, endp, c) ELSE lp

RECURSIVE ScanCcl(_, _, _, _)
\* while ((lp < endp) && isinset(ap + 1, ci.CharAt(lp))) lp++;
ScanCcl(doc, lp, endp, ap) ==
    IF lp < endp /\ isinset(nfa, ap + 1, CharAt(doc, lp))
    THEN ScanCcl(doc, lp + 1, endp, ap)
    ELSE lp

\* variant of ClosureScan that takes the atom at most once for every closure
ClosureScan_one(doc, lp, endp, op, ap) ==
    CASE nfa[ap] = ANY -> IF lp < endp THEN lp + 1 ELSE lp
      [] nfa[ap] = CHR ->
            IF lp < endp /\ nfa[ap + 1] = CharAt(doc, lp) THEN lp + 1 ELSE lp
      [] nfa[ap] = CCL ->
            IF lp < endp /\ isinset(nfa, ap + 1, CharAt(doc, lp)) THEN lp + 1 ELSE lp

\* switch (*ap) of a closure: the lp reached by iterating the atom forward
ClosureScan(doc, lp, endp, op, ap) ==
    CASE nfa[ap] = ANY ->
            IF op = CLO \/ op = LCLO THEN (IF lp < endp THEN endp ELSE lp)
            ELSE IF lp < endp THEN lp + 1 ELSE lp
      [] nfa[ap] = CHR ->
            IF op = CLO \/ op = LCLO THEN ScanChr(doc, lp, endp, nfa[ap + 1])
            ELSE IF lp < endp /\ nfa[ap + 1] = CharAt(doc, lp) THEN lp + 1 ELSE lp
      [] nfa[ap] = CCL -> ScanCcl(doc, lp, endp, ap)

\* n = ANYSKIP, CHRSKIP or CCLSKIP
ClosureSkip(ap) ==
    CASE nfa[ap] = ANY -> ANYSKIP
      [] nfa[ap] = CHR -> CHRSKIP
      [] nfa[ap] = CCL -> CCLSKIP

RECURSIVE PMatch(_, _, _, _, _, _, _, _)
RECURSIVE ClosureLoop(_, _, _, _, _, _, _, _, _, _, _, _)

\* Sci::Position llp = lp; Sci::Position e = NOTFOUND;
\* while (llp >= are) { ... } if (*ap == EOT) PMatch(ci, lp, endp, ap); return e;
\* ev is the history record of this closure, g0 the path up to it, and best
\* the path of the last attempt that matched
ClosureLoop(doc, endp, op, ap, are, llp, lp, e, t, ev, g0, best) ==
    IF llp < are THEN
        [ret |-> e,
         t |-> IF nfa[ap] = EOT
               THEN PMatch(doc, lp, endp, ap, 1, NoOffset, t, g0).t
               ELSE t,
         g |-> best]
    ELSE
        LET \* the body of the loop after q = PMatch(ci, llp, endp, ap, -1, &qoff)
            Attempt(q) ==
              LET ok == q.ret # NOTFOUND
                  e1 == IF ok THEN q.ret ELSE e
                  lp1 == IF ok THEN llp ELSE lp
                  best1 == IF ok THEN q.g ELSE best
              IN IF ok /\ op # LCLO THEN [ret |-> e1, t |-> q.t, g |-> best1]
                 ELSE IF nfa[ap] = END THEN [ret |-> e1, t |-> q.t, g |-> best1]
                 ELSE IF q.offset > -1
                 THEN \* llp += qoff does not lower llp: the loop never ends
                      [ret |-> e1, t |-> [q.t EXCEPT !.stuck = TRUE], g |-> best1]
                 ELSE ClosureLoop(doc, endp, op, ap, are, llp + q.offset, lp1, e1,
                                  [q.t EXCEPT !.qoffs = @ \cup {q.offset}],
                                  ev, g0, best1)
        IN Attempt(PMatch(doc, llp, endp, ap, -1, -1, t,
                          [g0 EXCEPT !.log = Append(@, [ev EXCEPT !.llp = llp])]))

PMatch(doc, lp, endp, ap, moveDir, offset, t, g) ==
    LET op == nfa[ap]
        Fail(off, tt) == [ret |-> NOTFOUND, offset |-> off, t |-> tt, g |-> g]
    IN
    CASE op = END -> [ret |-> lp, offset |-> offset, t |-> t, g |-> g]
      [] op = CHR ->
            IF CharAt(doc, lp) # nfa[ap + 1] THEN Fail(offset, t)
            ELSE PMatch(doc, lp + 1, endp, ap + 2, moveDir, offset, t, g)
      [] op = ANY ->
            IF lp >= endp THEN Fail(offset, t)
            ELSE PMatch(doc, lp + 1, endp, ap + 1, moveDir, offset, t, g)
      [] op = CCL ->
            IF lp >= endp THEN Fail(offset, t)
            ELSE IF ~isinset(nfa, ap + 1, CharAt(doc, lp)) THEN Fail(offset, t)
            ELSE PMatch(doc, lp + 1, endp, ap + 1 + BITBLK, moveDir, offset, t, g)
      [] op = BOL ->
            IF lp # t.bol THEN Fail(offset, t)
            ELSE PMatch(doc, lp, endp, ap + 1, moveDir, offset, t, g)
      [] op = EOL ->
            IF lp < endp THEN Fail(offset, t)
            ELSE PMatch(doc, lp, endp, ap + 1, moveDir, offset, t, g)
      [] op = BOT ->
            LET lp1 == MovePositionOutsideChar(doc, lp, -1)
                n == nfa[ap + 1]
            IN PMatch(doc, lp1, endp, ap + 2, moveDir, offset,
                      [t EXCEPT !.bopat[n] = lp1], [g EXCEPT !.gb[n] = lp1])
      [] op = EOT ->
            LET lp1 == MovePositionOutsideChar(doc, lp, 1)
                n == nfa[ap + 1]
            IN PMatch(doc, lp1, endp, ap + 2, moveDir, offset,
                      [t EXCEPT !.eopat[n] = lp1], [g EXCEPT !.ge[n] = lp1])
      [] op = BOW ->
            IF (lp # t.bol /\ iswordc(CharAt(doc, lp - 1))) \/ ~iswordc(CharAt(doc, lp))
            THEN Fail(offset, t)
            ELSE PMatch(doc, lp, endp, ap + 1, moveDir, offset, t, g)
      [] op = EOW ->
            IF lp = t.bol \/ ~iswordc(CharAt(doc, lp - 1)) \/ iswordc(CharAt(doc, lp))
            THEN Fail(offset, t)
            ELSE PMatch(doc, lp, endp, ap + 1, moveDir, offset, t, g)
      [] op = EXP_MATCH_WORD_START ->
            IF ~IsWordStartAt(doc, lp)
            THEN Fail(OffsetHint(doc, lp, moveDir,
                                 MovePositionOutsideChar(doc, lp, moveDir), offset), t)
            ELSE PMatch(doc, lp, endp, ap + 1, moveDir, offset, t, g)
      [] op = EXP_MATCH_WORD_END ->
            IF lp = t.bol \/ ~IsWordEndAt(doc, lp)
            THEN Fail(OffsetHint(doc, lp, moveDir,
                                 MovePositionOutsideChar(doc, lp, moveDir), offset), t)
            ELSE PMatch(doc, lp, endp, ap + 1, moveDir, offset, t, g)
      [] op = EXP_MATCH_TO_WORD_END \/ op = EXP_MATCH_TO_WORD_END_OPT ->
            LET e == ExtendWordSelect(doc, lp, moveDir)
            IN IF (e = lp /\ op # EXP_MATCH_TO_WORD_END_OPT) \/ ~IsWordEndAt(doc, e)
               THEN Fail(OffsetHint(doc, lp, moveDir, e, offset), t)
               ELSE PMatch(doc, e, endp, ap + 1, moveDir, offset, t, g)
      [] op = REF ->
            LET n == nfa[ap + 1]
                bp == t.bopat[n]
                ep == t.eopat[n]
                lp1 == RefLoop(doc, bp, ep, lp)
            IN IF lp1 = NOTFOUND THEN Fail(offset, t)
               ELSE PMatch(doc, lp1, endp, ap + 2, moveDir, offset, t,
                           [g EXCEPT !.log = Append(@,
                               [op |-> REF, n |-> n, bp |-> bp, ep |-> ep,
                                gb |-> g.gb[n], ge |-> g.ge[n],
                                lp |-> lp, to |-> lp1])])
      [] op = LCLO \/ op = CLQ \/ op = CLO ->
            IF nfa[ap + 1] \notin {ANY, CHR, CCL}
            THEN Fail(offset, [t EXCEPT !.failure = 1])
            ELSE
              LET are == lp
                  lp1 == ClosureScan(doc, lp, endp, op, ap + 1)
                  tail == ap + 1 + ClosureSkip(ap + 1)
                  ev == [op |-> op, are |-> are, max |-> lp1, llp |-> lp1,
                         atom |-> ap + 1, tail |-> tail,
                         bopat |-> t.bopat, eopat |-> t.eopat]
                  Return(r) == [ret |-> r.ret, offset |-> offset, t |-> r.t,
                                g |-> r.g]
              IN Return(ClosureLoop(doc, endp, op, tail, are, lp1, lp1, NOTFOUND,
                                    t, ev, g, g))
      [] OTHER -> Fail(offset, t)

\* variant of Clear that resets only the bounds of group 0
Clear_group0(t) ==
    [t EXCEPT !.bopat[0] = NOTFOUND, !.eopat[0] = NOTFOUND]

\* RESearch::Clear: bopat[i] = NOTFOUND; eopat[i] = NOTFOUND; for every i < MAXTAG
Clear(t) == [t EXCEPT !.bopat = NoTags, !.eopat = NoTags]

\* variant of the fast skip that always passes over the first character
SkipToChr_past(doc, lp, endp, c) == IF lp < endp THEN lp + 1 ELSE lp

RECURSIVE SkipToChr(_, _, _, _)
\* while ((lp < endp) && (ci.CharAt(lp) != c)) lp++;
SkipToChr(doc, lp, endp, c) ==
    IF lp < endp /\ CharAt(doc, lp) # c THEN SkipToChr(doc, lp + 1, endp, c) ELSE lp

RECURSIVE ScanLoop(_, _, _, _, _)
\* while (lp < endp) { offset = 1; ep = PMatch(ci, lp, endp, ap, 1, &offset);
\*                     if (ep != NOTFOUND) break; lp += offset; }
ScanLoop(doc, lp, endp, t, tried) ==
    IF lp >= endp THEN [ep |-> NOTFOUND, lp |-> lp, t |-> t, tried |-> tried, g |-> NoPath]
    ELSE LET Tried(r) ==
               IF r.ret # NOTFOUND
               THEN [ep |-> r.ret, lp |-> lp, t |-> r.t, tried |-> Append(tried, lp),
                     g |-> r.g]
               ELSE IF r.offset < 1
               THEN \* lp += offset does not raise lp: the loop never ends
                    [ep |-> NOTFOUND, lp |-> lp, t |-> [r.t EXCEPT !.stuck = TRUE],
                     tried |-> Append(tried, lp), g |-> NoPath]
               ELSE ScanLoop(doc, lp + r.offset, endp, r.t, Append(tried, lp))
         IN Tried(PMatch(doc, lp, endp, 0, 1, 1, t, NoPath))

\* variant of Execute that scans every program from lp to endp, without the
\* cases for BOL, EOL, CHR and END
Execute_scan(doc, lp, endp) ==
    LET t0 == Clear([bopat |-> bopat, eopat |-> eopat, failure |-> 0, bol |-> lp,
            stuck |-> FALSE, qoffs |-> {}])
        Finish(s) ==
            IF s.ep = NOTFOUND
            THEN [ret |-> 0, t |-> s.t, tried |-> s.tried, g |-> NoPath]
            ELSE [ret |-> 1, t |-> [s.t EXCEPT !.bopat[0] = s.lp, !.eopat[0] = s.ep],
                  tried |-> s.tried, g |-> s.g]
    IN Finish(ScanLoop(doc, lp, endp, t0, <<>>))

(***************************************************************************)
(* Execute: the value returned, the table after the call, and history:     *)
(* the start positions at which PMatch was tried and the returned path.    *)
(***************************************************************************)
Execute(doc, lp, endp) ==
    LET t0 == Clear([bopat |-> bopat, eopat |-> eopat, failure |-> 0, bol |-> lp,
            stuck |-> FALSE, qoffs |-> {}])
        Ret0(t, tried) == [ret |-> 0, t |-> t, tried |-> tried, g |-> NoPath]
        Finish(s) ==
            IF s.ep = NOTFOUND THEN Ret0(s.t, s.tried)
            ELSE [ret |-> 1,
                  t |-> [s.t EXCEPT !.bopat[0] = s.lp, !.eopat[0] = s.ep],
                  tried |-> s.tried, g |-> s.g]
    IN CASE nfa[0] = BOL ->
              LET Anchored(r) == [ep |-> r.ret, lp |-> lp, t |-> r.t,
                                  tried |-> <<lp>>, g |-> r.g]
              IN Finish(Anchored(PMatch(doc, lp, endp, 0, 1, NoOffset, t0, NoPath)))
         [] nfa[0] = EOL ->
              IF nfa[1] = END
              THEN Finish([ep |-> endp, lp |-> endp, t |-> t0, tried |-> <<>>,
                           g |-> NoPath])
              ELSE Ret0(t0, <<>>)
         [] nfa[0] = CHR ->
              LET From(lp1) == IF lp1 >= endp THEN Ret0(t0, <<>>)
                               ELSE Finish(ScanLoop(doc, lp1, endp, t0, <<>>))
              IN From(SkipToChr(doc, lp, endp, nfa[1]))
         [] nfa[0] = END -> Ret0(t0, <<>>)
         [] OTHER -> Finish(ScanLoop(doc, lp, endp, t0, <<>>))

(***************************************************************************)
(* Compile: the cache test, then DoCompile; success records the pattern.   *)
(***************************************************************************)
\* memcmp(pattern, cachedPattern.data(), length) == 0
memcmp0(pattern, cached, length) ==
    \A k \in 0..(length - 1) : P(pattern, k) = P(cached, k)

\* variant of the cache test that never answers from the cache
CacheHit_never(ptr, pattern, length, flags) == FALSE

\* the condition under which Compile returns nullptr without compiling
CacheHit(ptr, pattern, length, flags) ==
    sta = OKP /\ ( \/ ptr = nullptr
                   \/ length = 0
                   \/ ( /\ ptr = previousPattern
                        /\ length = previousLength
                        /\ flags = previousFlags
                        /\ memcmp0(pattern, cachedPattern, length) ) )

Compile(ptr, pattern, length, caseSensitive, flags) ==
    LET eng == [nfa |-> nfa, bittab |-> bittab, tagstk |-> tagstk, sta |-> sta]
        prev == [previousPattern |-> previousPattern,
                 previousLength |-> previousLength,
                 previousFlags |-> previousFlags,
                 cachedPattern |-> cachedPattern]
        \* if (!errmsg) { previousPattern = pattern; ... } return errmsg;
        Record(r) ==
            [eng |-> r.eng,
             prev |-> IF r.err = nullptr
                      THEN [previousPattern |-> ptr,
                            previousLength |-> length,
                            previousFlags |-> flags,
                            cachedPattern |-> SubSeq(pattern, 1, length)]
                      ELSE prev,
             err |-> r.err,
             compiled |-> TRUE]
    IN IF CacheHit(ptr, pattern, length, flags)
       THEN [eng |-> eng, prev |-> prev, err |-> nullptr, compiled |-> FALSE]
       ELSE Record(DoCompile(eng, ptr, pattern, length, caseSensitive,
                             flags = FindOptionPosix))

(***************************************************************************)
(* Construction and the calls.                                             *)
(***************************************************************************)
NoCall == [op |-> "new", ptr |-> nullptr, pattern |-> <<>>, caseSensitive |-> TRUE,
           flags |-> FindOptionNone, err |-> nullptr, compiled |-> FALSE,
           doc |-> <<>>, lp |-> 0, endp |-> 0, ret |-> 0, tried |-> <<>>,
           g |-> NoPath, pre |-> [bopat |-> NoTags, eopat |-> NoTags],
           stuck |-> FALSE, qoffs |-> {}]

NoCompile == [ptr |-> nullptr, pattern |-> <<>>, caseSensitive |-> TRUE,
              flags |-> FindOptionNone, err |-> "none", cleared |-> FALSE,
              afterExec |-> FALSE]

\* the locals of DoCompile at its first statement, on the engine eng
Locals(eng) ==
    [nfa |-> eng.nfa, bittab |-> eng.bittab, tagstk |-> eng.tagstk,
     mp |-> 0, sp |-> 0, i |-> 0, tagi |-> 0, tagc |-> 1, err |-> nullptr]

\* no Compile call in progress, none begun
NoComp ==
    [active |-> FALSE, calls |-> 0, ptr |-> nullptr, pattern |-> <<>>,
     caseSensitive |-> TRUE, flags |-> FindOptionNone,
     c |-> Locals([nfa |-> [k \in 0..(MAXNFA - 1) |-> 0], bittab |-> ZeroBits,
                   tagstk |-> [k \in 0..(MAXTAG - 1) |-> 0]])]

\* RESearch::RESearch
InitRE ==
    /\ nfa = [k \in 0..(MAXNFA - 1) |-> 0]
    /\ bittab = ZeroBits
    /\ tagstk = [k \in 0..(MAXTAG - 1) |-> 0]
    /\ sta = NOP
    /\ bol = 0
    /\ failure = 0
    /\ bopat = NoTags
    /\ eopat = NoTags
    /\ previousPattern = nullptr
    /\ previousLength = 0
    /\ previousFlags = FindOptionNone
    /\ cachedPattern = <<>>
    /\ call = NoCall
    /\ hist = [lastc |-> NoCompile, valid |-> "none", wasOk |-> FALSE]
    /\ comp = NoComp

\* no document open in the lexer
NoDocument == [text |-> <<>>, styles |-> <<>>, levels |-> <<>>, setup |-> <<>>]

NoTrail == [calls |-> <<>>, log |-> <<>>]

\* the lexer at rest on a document
Idle(document) ==
    /\ styler = document
    /\ sc = <<>>
    /\ fold = <<>>
    /\ pc = "idle"
    /\ trail = NoTrail

\* the engine as constructed, and no document open in the lexer
Init == InitRE /\ Idle(NoDocument)

\* a call of RESearch::Compile; r is what the call returns and leaves behind
CompileCall(ptr, pattern, caseSensitive, flags) ==
    \E r \in {Compile(ptr, pattern, Len(pattern), caseSensitive, flags)} :
       /\ nfa' = r.eng.nfa
       /\ bittab' = r.eng.bittab
       /\ tagstk' = r.eng.tagstk
       /\ sta' = r.eng.sta
       /\ previousPattern' = r.prev.previousPattern
       /\ previousLength' = r.prev.previousLength
       /\ previousFlags' = r.prev.previousFlags
       /\ cachedPattern' = r.prev.cachedPattern
       /\ call' = [NoCall EXCEPT !.op = "Compile", !.ptr = ptr, !.pattern = pattern,
                                 !.caseSensitive = caseSensitive, !.flags = flags,
                                 !.err = r.err, !.compiled = r.compiled]
       /\ hist' = [lastc |-> [ptr |-> ptr, pattern |-> pattern,
                              caseSensitive |-> caseSensitive, flags |-> flags,
                              err |-> r.err, cleared |-> FALSE,
                              afterExec |-> (call.op = "Execute")],
                   valid |-> IF ~r.compiled THEN hist.valid
                             ELSE IF r.err = nullptr THEN "ok" ELSE "error",
                   wasOk |-> (hist.wasOk \/ (r.compiled /\ r.err = nullptr))]
       /\ UNCHANGED <<bol, failure, bopat, eopat, comp>>
       /\ UNCHANGED sqlVars

\* a call of RESearch::Execute on the document doc
ExecuteCall(doc, lp, endp) ==
    \E r \in {Execute(doc, lp, endp)} :
       /\ bol' = lp
       /\ failure' = r.t.failure
       /\ bopat' = r.t.bopat
       /\ eopat' = r.t.eopat
       /\ call' = [NoCall EXCEPT !.op = "Execute", !.doc = doc, !.lp = lp,
                                 !.endp = endp, !.ret = r.ret, !.tried = r.tried,
                                 !.g = r.g,
                                 !.pre = [bopat |-> bopat, eopat |-> eopat],
                                 !.stuck = r.t.stuck, !.qoffs = r.t.qoffs]
       /\ UNCHANGED <<nfa, bittab, tagstk, sta, previousPattern, previousLength,
                      previousFlags, cachedPattern, hist, comp>>
       /\ UNCHANGED sqlVars

\* RESearch::ClearCache
ClearCacheCall ==
    /\ sta' = NOP
    /\ previousPattern' = nullptr
    /\ previousLength' = 0
    /\ previousFlags' = FindOptionNone
    /\ call' = [NoCall EXCEPT !.op = "ClearCache"]
    /\ hist' = [hist EXCEPT !.lastc.cleared = TRUE]
    /\ UNCHANGED <<nfa, bittab, tagstk, bol, failure, bopat, eopat, cachedPattern,
                   comp>>
    /\ UNCHANGED sqlVars

(***************************************************************************)
(* The protocol specification: any sequence of Compile, Execute and        *)
(* ClearCache calls on one engine.  A Compile input is a buffer address,   *)
(* the bytes the buffer holds at the call, the case flag and the options;  *)
(* two addresses let the same bytes arrive in the same or in another       *)
(* buffer.                                                                 *)
(***************************************************************************)
CIn(ptr, pattern, caseSensitive, flags) ==
    [ptr |-> ptr, pattern |-> pattern, caseSensitive |-> caseSensitive,
     flags |-> flags]

CompileInputs ==
    { CIn("p1", <<ch.a>>, TRUE, FindOptionNone),
      CIn("p1", <<ch.a>>, FALSE, FindOptionNone),
      CIn("p2", <<ch.a>>, FALSE, FindOptionNone),
      CIn("p1", <<ch.bslash, ch.lparen, ch.a, ch.bslash, ch.rparen, ch.b>>,
          TRUE, FindOptionNone),
      CIn("p2", <<ch.lparen, ch.a, ch.rparen, ch.lparen, ch.b, ch.rparen>>,
          TRUE, FindOptionPosix),
      CIn("p1", <<ch.lbracket, ch.a>>, TRUE, FindOptionNone),
      CIn("p2", <<ch.star>>, TRUE, FindOptionNone),
      CIn("p1", <<>>, TRUE, FindOptionNone),
      CIn(nullptr, <<>>, TRUE, FindOptionNone) }

XIn(doc, lp, endp) == [doc |-> doc, lp |-> lp, endp |-> endp]

ExecuteInputs ==
    { XIn(<<ch.a, ch.b>>, 0, 2),
      XIn(<<ch.b, ch.A, ch.b>>, 1, 3) }

Next ==
    \/ \E c \in CompileInputs :
          CompileCall(c.ptr, c.pattern, c.caseSensitive, c.flags)
    \/ \E x \in ExecuteInputs : ExecuteCall(x.doc, x.lp, x.endp)
    \/ ClearCacheCall

Spec == Init /\ [][Next]_vars

(***************************************************************************)
(* The matching specification: one Compile call of a pattern, then one     *)
(* Execute call on a document.  The patterns are the documented examples   *)
(* and the concatenations head . middle . tail of the pieces below; the    *)
(* documents are all texts over {a, b} of at most MaxDocLen characters,    *)
(* with every range lp <= endp inside the document, the example texts for  *)
(* the example patterns, and for every pattern the pattern's own bytes.    *)
(***************************************************************************)
Heads ==
    { <<>>,
      <<ch.caret>>,
      <<ch.a, ch.star>>,
      <<ch.a, ch.star, ch.quest>>,
      <<ch.dot, ch.plus, ch.quest>> }

Middles ==
    { <<>>,
      <<ch.a>>,
      <<ch.dot>>,
      <<ch.lbracket, ch.caret, ch.b, ch.rbracket>>,
      <<ch.bslash, ch.lparen, ch.a, ch.bslash, ch.rparen>>,
      <<ch.bslash, ch.lparen, ch.a, ch.star, ch.bslash, ch.rparen>>,
      <<ch.bslash, ch.lparen, ch.b, ch.star, ch.quest, ch.bslash, ch.rparen>>,
      <<ch.bslash, ch.lparen, ch.a, ch.bslash, ch.lparen, ch.bslash, ch.d1,
        ch.bslash, ch.rparen, ch.bslash, ch.rparen>> }

Tails ==
    { <<>>,
      <<ch.b>>,
      <<ch.dollar>>,
      <<ch.bslash, ch.d1>>,
      <<ch.b, ch.star, ch.quest>>,
      <<ch.a, ch.plus>> }

\* the examples of the documentation: pattern and text
\* foo* on "fooo bar"
ExGreedy ==
    [pattern |-> <<ch.f, ch.o, ch.o, ch.star>>,
     doc |-> <<ch.f, ch.o, ch.o, ch.o, ch.space, ch.b, ch.a, ch.r>>]

\* \(fo.*\)-\1 on "foobar-foobar"
ExBackref ==
    [pattern |-> <<ch.bslash, ch.lparen, ch.f, ch.o, ch.dot, ch.star,
                   ch.bslash, ch.rparen, ch.minus, ch.bslash, ch.d1>>,
     doc |-> <<ch.f, ch.o, ch.o, ch.b, ch.a, ch.r, ch.minus,
               ch.f, ch.o, ch.o, ch.b, ch.a, ch.r>>]

\* a.*?b on "axbxb"
ExLazy ==
    [pattern |-> <<ch.a, ch.dot, ch.star, ch.quest, ch.b>>,
     doc |-> <<ch.a, ch.x, ch.b, ch.x, ch.b>>]

\* \d+\.\d+ on "v12.34"
ExNumber ==
    [pattern |-> <<ch.bslash, ch.d, ch.plus, ch.bslash, ch.dot,
                   ch.bslash, ch.d, ch.plus>>,
     doc |-> <<ch.v, ch.d1, ch.d2, ch.dot, ch.d3, ch.d4>>]

\* [^-]] on "x]", on "]" and on "Z]"
ExSetPattern == <<ch.lbracket, ch.caret, ch.minus, ch.rbracket, ch.rbracket>>

ExSetLower == [pattern |-> ExSetPattern, doc |-> <<ch.x, ch.rbracket>>]

ExSetBrace == [pattern |-> ExSetPattern, doc |-> <<ch.rbracket>>]

ExSetUpper == [pattern |-> ExSetPattern, doc |-> <<ch.Z, ch.rbracket>>]

Scenarios == {ExGreedy, ExBackref, ExLazy, ExNumber,
              ExSetLower, ExSetBrace, ExSetUpper}

MIn(pattern, caseSensitive, flags) ==
    [pattern |-> pattern, caseSensitive |-> caseSensitive, flags |-> flags]

MatchInputs ==
    { MIn(h \o m \o t, TRUE, FindOptionNone) : h \in Heads, m \in Middles, t \in Tails }
    \cup { MIn(s.pattern, TRUE, FindOptionNone) : s \in Scenarios }
    \cup { MIn(p, FALSE, fl) : p \in { <<ch.a>>, <<ch.A, ch.b>>, <<ch.a, ch.rbracket>>,
                                        <<ch.lparen, ch.a, ch.rparen>> },
                                fl \in {FindOptionNone, FindOptionPosix} }

\* the documents Execute is called on after compiling pattern
Docs(pattern) ==
    IF \E s \in Scenarios : s.pattern = pattern
    THEN {s.doc : s \in {x \in Scenarios : x.pattern = pattern}}
    ELSE UNION {[1..n -> {ch.a, ch.b}] : n \in 0..MaxDocLen}

MatchCompile ==
    /\ call.op = "new"
    /\ \E m \in MatchInputs : CompileCall("p1", m.pattern, m.caseSensitive, m.flags)

MatchExecute ==
    /\ call.op = "Compile"
    /\ call.err = nullptr
    /\ \E doc \in Docs(call.pattern) :
          \E lp \in 0..Len(doc) : \E endp \in lp..Len(doc) :
             ExecuteCall(doc, lp, endp)

\* Execute over the pattern's own text
MatchOwnText ==
    /\ call.op = "Compile"
    /\ call.err = nullptr
    /\ ExecuteCall(call.pattern, 0, Len(call.pattern))

NextMatch == MatchCompile \/ MatchExecute \/ MatchOwnText

SpecMatch == Init /\ [][NextMatch]_vars

(***************************************************************************)
(* Properties of the protocol specification.                               *)
(***************************************************************************)
RECURSIVE ProgramTags(_, _)
\* the group numbers n of the BOT n instructions of the program at buf[ap],
\* decoded as PMatch decodes it
ProgramTags(buf, ap) ==
    LET op == buf[ap]
    IN CASE op = END -> {}
         [] op = BOT -> {buf[ap + 1]} \cup ProgramTags(buf, ap + 2)
         [] op \in {CHR, EOT, REF} -> ProgramTags(buf, ap + 2)
         [] op = CCL -> ProgramTags(buf, ap + 1 + BITBLK)
         [] op \in {CLO, CLQ, LCLO} ->
              ProgramTags(buf, ap + 1 + (CASE buf[ap + 1] = ANY -> ANYSKIP
                                           [] buf[ap + 1] = CHR -> CHRSKIP
                                           [] OTHER -> CCLSKIP))
         [] OTHER -> ProgramTags(buf, ap + 1)

\* C1: an Execute call returns 0 whenever no Compile call has compiled
\* successfully yet, or the most recent Compile call that ran the compiler
\* returned an error string; it can return 1 only when that call succeeded.
C1_ExecuteNeedsValidProgram ==
    (call.op = "Execute" /\ hist.valid # "ok") => call.ret = 0

\* an Execute over a non-empty range that returned 0 after a failed Compile
\* which followed a successful one
C1_Witness ==
    /\ call.op = "Execute"
    /\ call.lp < call.endp
    /\ hist.valid = "error"
    /\ hist.wasOk
    /\ call.ret = 0

\* the last Compile call returned success and no ClearCache followed it
LastCompileSucceeded == hist.lastc.err = nullptr /\ ~hist.lastc.cleared

\* the call being made is a Compile call with the bytes, length and flags of
\* the last Compile call
RepeatsLastCompile ==
    /\ call'.op = "Compile"
    /\ call'.pattern = hist.lastc.pattern
    /\ call'.flags = hist.lastc.flags

\* the call reports success and leaves the program and the status unchanged
CompileIsNoOp == call'.err = nullptr /\ nfa' = nfa /\ sta' = sta

\* C2 (as stated): after a successful Compile, a further Compile call with
\* identical pattern bytes, length and flags reports success and leaves the
\* program and the validity status unchanged, whatever Execute calls
\* happened in between.
C2_SameBytesNoOp ==
    [][(LastCompileSucceeded /\ RepeatsLastCompile) => CompileIsNoOp]_vars

\* C2 (amended): the same, for a further Compile call that passes the same
\* pattern buffer address with identical bytes, length and flags.
C2_SameBufferNoOp ==
    [][(LastCompileSucceeded /\ RepeatsLastCompile /\ call'.ptr = hist.lastc.ptr)
          => CompileIsNoOp]_vars

\* a Compile call of a non-empty pattern answered from the cache right after
\* an Execute call
C2_Witness ==
    /\ call.op = "Compile"
    /\ ~call.compiled
    /\ call.err = nullptr
    /\ call.pattern # <<>>
    /\ call.ptr = previousPattern
    /\ hist.lastc.afterExec

\* C4: after any Execute call the bounds of every group 1..9 that the
\* compiled program does not define are NOTFOUND, whatever earlier calls
\* recorded, and the bounds of group 0 are NOTFOUND when it returned 0.
C4_ExecuteReinitialisesTable ==
    call.op = "Execute" =>
        /\ \A n \in 1..(MAXTAG - 1) :
              n \notin ProgramTags(nfa, 0) =>
                  bopat[n] = NOTFOUND /\ eopat[n] = NOTFOUND
        /\ call.ret = 0 => bopat[0] = NOTFOUND /\ eopat[0] = NOTFOUND

\* an Execute call on a valid program without groups, made when the table
\* still held the bounds of group 1 from an earlier Execute call
C4_Witness ==
    /\ call.op = "Execute"
    /\ nfa[0] # END
    /\ ProgramTags(nfa, 0) = {}
    /\ call.pre.bopat[1] # NOTFOUND
    /\ call.pre.eopat[1] # NOTFOUND
    /\ call.ret = 1
    /\ bopat[1] = NOTFOUND

(***************************************************************************)
(* Properties of the matching specification.                               *)
(***************************************************************************)
\* the last call was an Execute call over the whole of the compiled
\* pattern's own bytes
OwnTextExecuted ==
    /\ call.op = "Execute"
    /\ call.doc = hist.lastc.pattern
    /\ call.lp = 0
    /\ call.endp = Len(call.doc)

\* the match reported is [from, to)
Matched(from, to) == call.ret = 1 /\ bopat[0] = from /\ eopat[0] = to

\* the bytes the compiler treats specially under the given options
MetaChars(flags) ==
    {ch.nul, ch.dot, ch.caret, ch.dollar, ch.lbracket, ch.star, ch.plus,
     ch.quest, ch.bslash}
    \cup (IF flags = FindOptionPosix THEN {ch.lparen, ch.rparen} ELSE {})

\* a non-empty pattern without special bytes
IsLiteral(pattern, flags) ==
    /\ pattern # <<>>
    /\ \A k \in 1..Len(pattern) : pattern[k] \notin MetaChars(flags)

\* C3 (as stated): for every pattern Compile accepts, Execute over a text
\* equal to the pattern's own bytes, with lp = 0 and endp = length, returns
\* a match with bopat[0] = 0 and eopat[0] = length.
C3_OwnTextMatches ==
    OwnTextExecuted => Matched(0, Len(call.doc))

\* C3 (amended): the same for every accepted non-empty pattern that holds
\* none of the special bytes . ^ $ [ * + ? \ NUL, nor ( ) in POSIX mode.
C3_LiteralOwnTextMatches ==
    (OwnTextExecuted /\ IsLiteral(hist.lastc.pattern, hist.lastc.flags))
        => Matched(0, Len(call.doc))

\* the own text of a literal pattern of two bytes, compiled without case
\* sensitivity, was matched
C3_Witness ==
    /\ OwnTextExecuted
    /\ IsLiteral(hist.lastc.pattern, hist.lastc.flags)
    /\ Len(call.doc) = 2
    /\ ~hist.lastc.caseSensitive
    /\ Matched(0, 2)

\* C5: when Execute returns 1, for every group n the program defines,
\* [bopat[n], eopat[n]) is the span the group consumed in the reported
\* match, inside [bopat[0], eopat[0]]; nothing written by a match attempt
\* that failed or was superseded remains in the table.
C5_GroupSpansExact ==
    (call.op = "Execute" /\ call.ret = 1) =>
        \A n \in ProgramTags(nfa, 0) :
            /\ bopat[n] = call.g.gb[n]
            /\ eopat[n] = call.g.ge[n]
            /\ bopat[0] <= bopat[n]
            /\ bopat[n] <= eopat[n]
            /\ eopat[n] <= eopat[0]

\* the last call was Execute over the whole text of the example ex
ExampleExecuted(ex) ==
    /\ call.op = "Execute"
    /\ hist.lastc.pattern = ex.pattern
    /\ call.doc = ex.doc
    /\ call.lp = 0
    /\ call.endp = Len(ex.doc)

\* the capture table as it was when PMatch entered the closure of event ev
EntryTable(ev) ==
    [bopat |-> ev.bopat, eopat |-> ev.eopat, failure |-> 0, bol |-> call.lp,
            stuck |-> FALSE, qoffs |-> {}]

\* the remainder of the pattern after the closure of ev matches at q
TailMatches(ev, q) ==
    PMatch(call.doc, q, call.endp, ev.tail, -1, -1, EntryTable(ev), NoPath).ret
        # NOTFOUND

\* the atom of the closure of ev matches the character at p
AtomMatches(ev, p) ==
    /\ p < call.endp
    /\ CASE nfa[ev.atom] = ANY -> TRUE
         [] nfa[ev.atom] = CHR -> CharAt(call.doc, p) = nfa[ev.atom + 1]
         [] OTHER -> isinset(nfa, ev.atom + 1, CharAt(call.doc, p))

\* the atom of the closure of ev repeats from where the closure started to q
Repeats(ev, q) == \A p \in ev.are..(q - 1) : AtomMatches(ev, p)

\* the closures of kind op on the path of the reported match
ClosuresOnPath(op) ==
    {i \in DOMAIN call.g.log : call.g.log[i].op = op}

\* C6: in a reported match every greedy closure (CLO) has consumed the
\* largest number of repetitions of its atom for which the remainder of the
\* pattern still matches; foo* on "fooo bar" matches [0,4).
C6_GreedyLongest ==
    /\ (call.op = "Execute" /\ call.ret = 1) =>
          \A i \in ClosuresOnPath(CLO) :
             LET ev == call.g.log[i]
             IN /\ Repeats(ev, ev.llp)
                /\ \A q \in (ev.llp + 1)..call.endp :
                      Repeats(ev, q) => ~TailMatches(ev, q)
    /\ ExampleExecuted(ExGreedy) => Matched(0, 4)

\* the example foo* on "fooo bar" was matched, its closure consuming "oo"
C6_Witness ==
    /\ ExampleExecuted(ExGreedy)
    /\ Matched(0, 4)
    /\ \E i \in ClosuresOnPath(CLO) :
          call.g.log[i].are = 2 /\ call.g.log[i].llp = 4

\* a greedy closure gave back characters so that the remainder matched
C6_WitnessBacktrack ==
    /\ call.op = "Execute"
    /\ call.ret = 1
    /\ \E i \in ClosuresOnPath(CLO) :
          /\ call.g.log[i].llp < call.g.log[i].max
          /\ call.g.log[i].llp > call.g.log[i].are

\* C7: in a reported match every lazy closure (LCLO) has consumed the
\* fewest repetitions of its atom that let the remainder of the pattern
\* match, wherever the closure stands in the pattern, also at its end;
\* a.*?b on "axbxb" matches [0,3).
C7_LazyFewest ==
    /\ (call.op = "Execute" /\ call.ret = 1) =>
          \A i \in ClosuresOnPath(LCLO) :
             LET ev == call.g.log[i]
             IN /\ Repeats(ev, ev.llp)
                /\ \A q \in ev.are..(ev.llp - 1) : ~TailMatches(ev, q)
    /\ ExampleExecuted(ExLazy) => Matched(0, 3)

\* the back-references on the path of the reported match
RefsOnPath == ClosuresOnPath(REF)

\* C8: a back-reference to group n matches exactly the text that group n
\* captured earlier in the same match attempt; \(fo.*\)-\1 on
\* "foobar-foobar" matches [0,13) with group 1 = [0,6).
C8_RefReplaysCapture ==
    /\ (call.op = "Execute" /\ call.ret = 1) =>
          \A i \in RefsOnPath :
             LET ev == call.g.log[i]
             IN /\ ev.gb # NOTFOUND
                /\ ev.ge # NOTFOUND
                /\ ev.bp = ev.gb
                /\ ev.ep = ev.ge
                /\ ev.to - ev.lp = ev.ge - ev.gb
                /\ \A k \in 0..(ev.ge - ev.gb - 1) :
                      CharAt(call.doc, ev.lp + k) = CharAt(call.doc, ev.gb + k)
    /\ ExampleExecuted(ExBackref) =>
          Matched(0, 13) /\ bopat[1] = 0 /\ eopat[1] = 6

\* the pattern last compiled starts with ^
StartsWithCaret == hist.lastc.pattern # <<>> /\ hist.lastc.pattern[1] = ch.caret

\* the pattern last compiled uses \h, \H or \i
UsesWordOps ==
    \E k \in 1..(Len(hist.lastc.pattern) - 1) :
        /\ hist.lastc.pattern[k] = ch.bslash
        /\ hist.lastc.pattern[k + 1] \in {ch.h, ch.H, ch.i}

\* PMatch, called on the program with a cleared table, succeeds at p
MatchEnd(p) ==
    PMatch(call.doc, p, call.endp, 0, 1, 1,
           [bopat |-> NoTags, eopat |-> NoTags, failure |-> 0, bol |-> call.lp,
            stuck |-> FALSE, qoffs |-> {}],
           NoPath).ret

\* the start positions in [lp, endp) at which PMatch succeeds
MatchStarts == {p \in call.lp..(call.endp - 1) : MatchEnd(p) # NOTFOUND}

\* Execute reported the leftmost of the matches PMatch finds in [lp, endp)
ReportsLeftmost ==
    /\ call.ret = 1 <=> MatchStarts # {}
    /\ call.ret = 1 =>
          /\ \A p \in MatchStarts : bopat[0] <= p
          /\ bopat[0] \in MatchStarts
          /\ eopat[0] = MatchEnd(bopat[0])

\* C9 (as stated): for a pattern that does not start with ^ and uses none
\* of \h, \H, \i, Execute returns 1 iff PMatch succeeds at some start
\* position in [lp, endp), and then bopat[0] is the smallest such position,
\* also when the first opcode is CHR; \d+\.\d+ on "v12.34" matches [1,6).
C9_Leftmost ==
    /\ (call.op = "Execute" /\ ~StartsWithCaret /\ ~UsesWordOps) => ReportsLeftmost
    /\ ExampleExecuted(ExNumber) => Matched(1, 6)

\* C9 (amended): the same for every such pattern other than $ alone.
C9_LeftmostExceptEol ==
    /\ (call.op = "Execute" /\ ~StartsWithCaret /\ ~UsesWordOps
          /\ hist.lastc.pattern # <<ch.dollar>>) => ReportsLeftmost
    /\ ExampleExecuted(ExNumber) => Matched(1, 6)

\* a program starting with CHR matched at a position after lp, where an
\* earlier occurrence of its first character had not matched
C9_Witness ==
    /\ call.op = "Execute"
    /\ nfa[0] = CHR
    /\ call.ret = 1
    /\ bopat[0] >= call.lp + 2
    /\ \E p \in call.lp..(bopat[0] - 1) : CharAt(call.doc, p) = nfa[1]

\* the example \d+\.\d+ on "v12.34" was matched at [1,6)
C9_WitnessExample == ExampleExecuted(ExNumber) /\ Matched(1, 6)

\* C10: a pattern starting with ^ is tried exactly once, at lp, so a match
\* it reports starts at lp; a program consisting of EOL alone matches the
\* empty string at [endp, endp); ^$ on an empty range matches [lp, lp).
C10_Anchors ==
    call.op = "Execute" =>
        /\ StartsWithCaret =>
              /\ call.tried = <<call.lp>>
              /\ call.ret = 1 => bopat[0] = call.lp
        /\ (nfa[0] = EOL /\ nfa[1] = END) => Matched(call.endp, call.endp)
        /\ (hist.lastc.pattern = <<ch.caret, ch.dollar>> /\ call.lp = call.endp)
              => Matched(call.lp, call.lp)

\* ^$ matched [0,0) on the empty text
C10_Witness ==
    /\ call.op = "Execute"
    /\ hist.lastc.pattern = <<ch.caret, ch.dollar>>
    /\ call.doc = <<>>
    /\ Matched(0, 0)

\* a pattern starting with ^ failed on a range in which it matches further on
C10_WitnessOnce ==
    /\ call.op = "Execute"
    /\ StartsWithCaret
    /\ call.ret = 0
    /\ call.tried = <<call.lp>>
    /\ \E p \in (call.lp + 1)..(call.endp - 1) :
          PMatch(call.doc, p, call.endp, 1, 1, 1,
                 [bopat |-> NoTags, eopat |-> NoTags, failure |-> 0, bol |-> p,
            stuck |-> FALSE, qoffs |-> {}],
                 NoPath).ret # NOTFOUND

\* $ alone matched [endp, endp) on a non-empty range
C10_WitnessEol ==
    /\ call.op = "Execute"
    /\ hist.lastc.pattern = <<ch.dollar>>
    /\ call.lp < call.endp
    /\ Matched(call.endp, call.endp)

\* C11 (as stated): the pattern [^-]] compiles, and Execute finds no match in
\* "x]", no match in "]", and the match "Z]" = [0,2) in "Z]".
C11_SetExample ==
    /\ (call.op = "Compile" /\ call.pattern = ExSetPattern) => call.err = nullptr
    /\ ExampleExecuted(ExSetLower) => call.ret = 0
    /\ ExampleExecuted(ExSetBrace) => call.ret = 0
    /\ ExampleExecuted(ExSetUpper) => Matched(0, 2)

\* C11 (amended): the pattern [^-]] compiles to the set of every character
\* except - and ]; Execute matches the one character "x" = [0,1) in "x]",
\* finds no match in "]", and matches the one character "Z" = [0,1) in "Z]".
C11_SetExampleOneChar ==
    /\ (call.op = "Compile" /\ call.pattern = ExSetPattern) => call.err = nullptr
    /\ ExampleExecuted(ExSetLower) => Matched(0, 1)
    /\ ExampleExecuted(ExSetBrace) => call.ret = 0
    /\ ExampleExecuted(ExSetUpper) => Matched(0, 1)
    /\ (call.op = "Execute" /\ hist.lastc.pattern = ExSetPattern) =>
          /\ nfa[0] = CCL
          /\ nfa[1 + BITBLK] = END
          /\ \A c \in 0..(MAXCHR - 1) :
                isinset(nfa, 1, c) <=> c \notin {ch.minus, ch.rbracket}

\* Execute has run the program of [^-]] over the whole of "Z]"
C11_Witness == ExampleExecuted(ExSetUpper) /\ call.ret = 1

(***************************************************************************)
(* The SQL lexer (LexSQL.cxx): ColouriseSqlDoc.                            *)
(*                                                                         *)
(* A text is a sequence of bytes, positions count from 0.  The lexer sees  *)
(* the document through the Accessor and the StyleContext, which are       *)
(* written here as Scintilla defines them.                                 *)
(***************************************************************************)

\* styles of the SQL lexer (SciLexer.h, SCE_SQL_...); STRING_ and VARIABLE_ are
\* SCE_SQL_STRING and SCE_SQL_VARIABLE
SCE_SQL == [ DEFAULT |-> 0, COMMENT |-> 1, COMMENTLINE |-> 2, NUMBER |-> 4,
             WORD |-> 5, STRING_ |-> 6, CHARACTER |-> 7, OPERATOR |-> 10,
             IDENTIFIER |-> 11, COMMENTLINEDOC |-> 15, WORD2 |-> 16,
             USER1 |-> 19, QUOTEDIDENTIFIER |-> 23, HEX |-> 24, HEX2 |-> 25,
             BIT |-> 26, BIT2 |-> 27, VARIABLE_ |-> 28 ]

Styles == {SCE_SQL[n] : n \in DOMAIN SCE_SQL}

\* fold levels (Scintilla.h): the level of a line outside every fold, and the
\* flags of a level word
SC_FOLDLEVELBASE == 1024
SC_FOLDLEVELWHITEFLAG == 4096
SC_FOLDLEVELHEADERFLAG == 8192

\* character classes (CharacterSet.h)
IsADigit(c) == c >= ch.d0 /\ c <= ch.d9

IsHexDigit(c) ==
    \/ IsADigit(c)
    \/ (c >= ch.A /\ c <= ch.F)
    \/ (c >= ch.a /\ c <= ch.f)

IsAlpha(c) == (c >= ch.a /\ c <= ch.z) \/ (c >= ch.A /\ c <= ch.Z)

IsAlphaNumeric(c) == IsADigit(c) \/ IsAlpha(c)

iswordchar(c) == c < 128 /\ (IsAlphaNumeric(c) \/ c = ch.dot \/ c = ch.underscore)

iswordstart(c) == c < 128 /\ (IsAlphaNumeric(c) \/ c = ch.underscore)

isspacechar(c) == c = ch.space \/ (c >= ch.tab /\ c <= ch.cr)

\* % ^ & * ( ) - + = | { } [ ] : ; < > , / ? ! . ~
isoperator(c) ==
    /\ ~IsAlphaNumeric(c)
    /\ c \in { 37, ch.caret, 38, ch.star, ch.lparen, ch.rparen, ch.minus,
               ch.plus, ch.equals, 124, 123, 125, ch.lbracket, ch.rbracket,
               ch.colon, ch.semicolon, ch.lt, ch.gt, ch.comma, ch.slash,
               ch.quest, 33, ch.dot, 126 }

MakeLowerCase(c) == IF c >= ch.A /\ c <= ch.Z THEN c - ch.A + ch.a ELSE c

\* LexSQL.cxx
IsSqlWordChar(c, sqlAllowDottedWord) ==
    IF ~sqlAllowDottedWord
    THEN c < 128 /\ (IsAlphaNumeric(c) \/ c = ch.underscore)
    ELSE c < 128 /\ (IsAlphaNumeric(c) \/ c = ch.underscore \/ c = ch.dot)

\* variant of IsANumberChar that takes a . after a .
IsANumberChar_dots(c, chPrev) ==
    /\ c < 128
    /\ \/ IsADigit(c)
       \/ c = ch.dot
       \/ ((c = ch.plus \/ c = ch.minus) /\ (chPrev = ch.e \/ chPrev = ch.E))
       \/ ((c = ch.e \/ c = ch.E) /\ chPrev < 128 /\ IsADigit(chPrev))

IsANumberChar(c, chPrev) ==
    /\ c < 128
    /\ \/ IsADigit(c)
       \/ (c = ch.dot /\ chPrev # ch.dot)
       \/ ((c = ch.plus \/ c = ch.minus) /\ (chPrev = ch.e \/ chPrev = ch.E))
       \/ ((c = ch.e \/ c = ch.E) /\ chPrev < 128 /\ IsADigit(chPrev))

(***************************************************************************)
(* The Accessor: text, lines, and the style buffer.  A line ends with its  *)
(* line feed; the texts explored have no carriage returns.                 *)
(***************************************************************************)
Length(text) == Len(text)

SafeGetCharAt(text, pos, chDefault) ==
    IF pos >= 0 /\ pos < Len(text) THEN text[pos + 1] ELSE chDefault

\* positions of the line feeds of the text
LineEnds(text) == {k \in 0..(Len(text) - 1) : text[k + 1] = ch.lf}

\* the line a position is on
GetLine(text, pos) == Cardinality({k \in LineEnds(text) : k < pos})

\* the position a line starts at; the length of the text past the last line
LineStart(text, line) ==
    IF line <= 0 THEN 0
    ELSE IF line > Cardinality(LineEnds(text)) THEN Len(text)
    ELSE 1 + CHOOSE k \in LineEnds(text) :
                 Cardinality({j \in LineEnds(text) : j <= k}) = line

\* LexAccessor::ColourTo on the context c: positions startSeg..pos take the
\* style, and the next segment starts after pos; writes counts, for the
\* properties, how often the call has styled each position
ColourTo(c, pos, chAttr) ==
    IF pos < c.startSeg - 1 THEN c
    ELSE [c EXCEPT !.styles = [k \in DOMAIN @ |->
                                 IF k >= c.startSeg /\ k <= pos THEN chAttr ELSE @[k]],
                   !.writes = [k \in DOMAIN @ |->
                                 IF k >= c.startSeg /\ k <= pos THEN @[k] + 1 ELSE @[k]],
                   !.startSeg = pos + 1]

\* LexGetNextChar: the first character at or after pos that is not white space
LexGetNextChar(text, pos) ==
    LET rest == {k \in pos..(Len(text) - 1) : ~isspacechar(text[k + 1])}
    IN IF rest = {} THEN 0
       ELSE text[1 + CHOOSE k \in rest : \A j \in rest : k <= j]

(***************************************************************************)
(* WordList: a set of words; an abbreviated word is a pair <<stem, rest>>  *)
(* for the list entry stem ( rest and matches stem followed by a prefix of  *)
(* rest.                                                                   *)
(***************************************************************************)
InList(list, s) == s \in list

IsPrefix(p, s) == Len(p) <= Len(s) /\ SubSeq(s, 1, Len(p)) = p

InListAbbreviated(list, s) ==
    \E w \in list :
       /\ IsPrefix(w[1], s)
       /\ IsPrefix(SubSeq(s, Len(w[1]) + 1, Len(s)), w[2])


\* the keywords the folder knows, as the lower-case bytes of their text
kw == [
       select |-> <<ch.s, ch.e, ch.l, ch.e, ch.c, ch.t>>,
       if |-> <<ch.i, ch.f>>,
       then |-> <<ch.t, ch.h, ch.e, ch.n>>,
       loop |-> <<ch.l, ch.o, ch.o, ch.p>>,
       case |-> <<ch.c, ch.a, ch.s, ch.e>>,
       while |-> <<ch.w, ch.h, ch.i, ch.l, ch.e>>,
       repeat |-> <<ch.r, ch.e, ch.p, ch.e, ch.a, ch.t>>,
       elsif |-> <<ch.e, ch.l, ch.s, ch.i, ch.f>>,
       else |-> <<ch.e, ch.l, ch.s, ch.e>>,
       begin |-> <<ch.b, ch.e, ch.g, ch.i, ch.n>>,
       start |-> <<ch.s, ch.t, ch.a, ch.r, ch.t>>,
       end |-> <<ch.e, ch.n, ch.d>>,
       endif |-> <<ch.e, ch.n, ch.d, ch.i, ch.f>>,
       when |-> <<ch.w, ch.h, ch.e, ch.n>>,
       exit |-> <<ch.e, ch.x, ch.i, ch.t>>,
       exception |-> <<ch.e, ch.x, ch.c, ch.e, ch.p, ch.t, ch.i, ch.o, ch.n>>,
       declare |-> <<ch.d, ch.e, ch.c, ch.l, ch.a, ch.r, ch.e>>,
       function |-> <<ch.f, ch.u, ch.n, ch.c, ch.t, ch.i, ch.o, ch.n>>,
       procedure |-> <<ch.p, ch.r, ch.o, ch.c, ch.e, ch.d, ch.u, ch.r, ch.e>>,
       package |-> <<ch.p, ch.a, ch.c, ch.k, ch.a, ch.g, ch.e>>,
       merge |-> <<ch.m, ch.e, ch.r, ch.g, ch.e>> ]

(***************************************************************************)
(* StyleContext (StyleContext.h).  The context c holds the fields of the   *)
(* StyleContext together with the Accessor's style buffer and segment      *)
(* start; text is the document.                                            *)
(***************************************************************************)
\* GetNextChar: the look-ahead character and the end-of-line flag
GetNextChar(text, c) ==
    [c EXCEPT !.chNext = SafeGetCharAt(text, c.currentPos + 1, 0),
              !.atLineEnd = IF c.currentLine < c.lineDocEnd
                            THEN c.currentPos >= c.lineStartNext - 1
                            ELSE c.currentPos >= c.lineStartNext]

\* StyleContext::StyleContext
StyleContext(text, styles, startPos, length, initStyle) ==
    LET endPos == startPos + length
        first == [styles |-> styles, startSeg |-> startPos,
                  writes |-> [k \in DOMAIN styles |-> 0],
                  endPos |-> IF endPos = Len(text) THEN endPos + 1 ELSE endPos,
                  lengthDocument |-> Len(text),
                  currentPos |-> startPos,
                  currentLine |-> GetLine(text, startPos),
                  lineStartNext |-> LineStart(text, GetLine(text, startPos) + 1),
                  lineDocEnd |-> GetLine(text, Len(text)),
                  atLineStart |-> (LineStart(text, GetLine(text, startPos)) = startPos),
                  atLineEnd |-> FALSE,
                  state |-> initStyle % 256,
                  chPrev |-> 0,
                  ch |-> SafeGetCharAt(text, startPos, 0),
                  chNext |-> 0]
    IN GetNextChar(text, first)

More(c) == c.currentPos < c.endPos

\* StyleContext::Forward
Forward(text, c) ==
    IF c.currentPos < c.endPos
    THEN LET line == IF c.atLineEnd THEN c.currentLine + 1 ELSE c.currentLine
         IN GetNextChar(text,
               [c EXCEPT !.atLineStart = c.atLineEnd,
                         !.currentLine = line,
                         !.lineStartNext = IF c.atLineEnd THEN LineStart(text, line + 1)
                                           ELSE @,
                         !.chPrev = c.ch,
                         !.currentPos = @ + 1,
                         !.ch = c.chNext])
    ELSE [c EXCEPT !.atLineStart = FALSE, !.chPrev = ch.space, !.ch = ch.space,
                   !.chNext = ch.space, !.atLineEnd = TRUE]

ChangeState(c, state_) == [c EXCEPT !.state = state_]

\* the last position of the current segment
SegmentEnd(c) == c.currentPos - (IF c.currentPos > c.lengthDocument THEN 2 ELSE 1)

SetState(c, state_) ==
    [ColourTo(c, SegmentEnd(c), c.state) EXCEPT !.state = state_]

ForwardSetState(text, c, state_) == SetState(Forward(text, c), state_)

Match(c, ch0, ch1) == c.ch = ch0 /\ c.chNext = ch1

\* the text of the current segment in lower case
GetCurrentLowered(text, c) ==
    [k \in 1..(c.currentPos - c.startSeg) |->
        MakeLowerCase(SafeGetCharAt(text, c.startSeg + k - 1, 0))]

Complete(c) == ColourTo(c, SegmentEnd(c), c.state)

(***************************************************************************)
(* ColouriseSqlDoc.  o holds the properties and the keyword lists of the   *)
(* call, c the StyleContext.                                               *)
(***************************************************************************)
\* variant of Identifier that asks the user list before keyword list 2
Identifier_user(text, o, c) ==
    IF ~IsSqlWordChar(c.ch, o.sqlAllowDottedWord)
    THEN LET s == GetCurrentLowered(text, c)
         IN SetState(IF InList(o.keywords1, s) THEN ChangeState(c, SCE_SQL.WORD)
                     ELSE IF /\ LexGetNextChar(text, c.currentPos) = ch.lparen
                             /\ InListAbbreviated(o.kw_user1, s)
                          THEN ChangeState(c, SCE_SQL.USER1)
                     ELSE IF InList(o.keywords2, s) THEN ChangeState(c, SCE_SQL.WORD2)
                     ELSE c,
                     SCE_SQL.DEFAULT)
    ELSE c

\* case SCE_SQL.IDENTIFIER, also entered from the end of the function
Identifier(text, o, c) ==
    IF ~IsSqlWordChar(c.ch, o.sqlAllowDottedWord)
    THEN LET s == GetCurrentLowered(text, c)
         IN SetState(IF InList(o.keywords1, s) THEN ChangeState(c, SCE_SQL.WORD)
                     ELSE IF InList(o.keywords2, s) THEN ChangeState(c, SCE_SQL.WORD2)
                     ELSE IF /\ LexGetNextChar(text, c.currentPos) = ch.lparen
                             /\ InListAbbreviated(o.kw_user1, s)
                          THEN ChangeState(c, SCE_SQL.USER1)
                     ELSE c,
                     SCE_SQL.DEFAULT)
    ELSE c

\* "Determine if the current state should terminate."
Terminate(text, o, c) ==
    CASE c.state = SCE_SQL.OPERATOR -> SetState(c, SCE_SQL.DEFAULT)
      [] c.state = SCE_SQL.HEX ->
            IF ~IsHexDigit(c.ch) THEN SetState(c, SCE_SQL.DEFAULT) ELSE c
      [] c.state = SCE_SQL.HEX2 ->
            IF c.ch = ch.dquote \/ c.ch = ch.quote
            THEN ForwardSetState(text, c, SCE_SQL.DEFAULT) ELSE c
      [] c.state = SCE_SQL.BIT ->
            IF ~(c.ch = ch.d0 \/ c.ch = ch.d1) THEN SetState(c, SCE_SQL.DEFAULT) ELSE c
      [] c.state = SCE_SQL.BIT2 ->
            IF c.ch = ch.quote THEN ForwardSetState(text, c, SCE_SQL.DEFAULT) ELSE c
      [] c.state = SCE_SQL.NUMBER ->
            IF ~IsANumberChar(c.ch, c.chPrev) THEN SetState(c, SCE_SQL.DEFAULT) ELSE c
      [] c.state = SCE_SQL.VARIABLE_ ->
            IF ~(iswordchar(c.ch) \/ c.ch = ch.at) THEN SetState(c, SCE_SQL.DEFAULT)
            ELSE c
      [] c.state = SCE_SQL.IDENTIFIER -> Identifier(text, o, c)
      [] c.state = SCE_SQL.QUOTEDIDENTIFIER ->
            IF c.ch = ch.backtick
            THEN IF c.chNext = ch.backtick THEN Forward(text, c)
                 ELSE ForwardSetState(text, c, SCE_SQL.DEFAULT)
            ELSE c
      [] c.state = SCE_SQL.COMMENT ->
            IF Match(c, ch.star, ch.slash)
            THEN ForwardSetState(text, Forward(text, c), SCE_SQL.DEFAULT)
            ELSE c
      [] c.state = SCE_SQL.COMMENTLINE \/ c.state = SCE_SQL.COMMENTLINEDOC ->
            IF c.atLineStart THEN SetState(c, SCE_SQL.DEFAULT) ELSE c
      [] c.state = SCE_SQL.CHARACTER ->
            IF o.sqlBackslashEscapes /\ c.ch = ch.bslash THEN Forward(text, c)
            ELSE IF c.ch = ch.quote
                 THEN IF c.chNext = ch.dquote THEN Forward(text, c)
                      ELSE ForwardSetState(text, c, SCE_SQL.DEFAULT)
                 ELSE c
      [] c.state = SCE_SQL.STRING_ ->
            IF c.ch = ch.bslash THEN Forward(text, c)
            ELSE IF c.ch = ch.dquote
                 THEN IF c.chNext = ch.dquote THEN Forward(text, c)
                      ELSE ForwardSetState(text, c, SCE_SQL.DEFAULT)
                 ELSE c
      [] OTHER -> c

\* "Determine if a new state should be entered."
Enter(text, o, c) ==
    IF c.state # SCE_SQL.DEFAULT THEN c
    ELSE IF c.ch = ch.d0 /\ (c.chNext = ch.x \/ c.chNext = ch.X)
         THEN Forward(text, SetState(c, SCE_SQL.HEX))
    ELSE IF (c.ch = ch.x \/ c.ch = ch.X) /\ (c.chNext = ch.dquote \/ c.chNext = ch.quote)
         THEN Forward(text, SetState(c, SCE_SQL.HEX2))
    ELSE IF c.ch = ch.d0 /\ (c.chNext = ch.b \/ c.chNext = ch.B)
         THEN Forward(text, SetState(c, SCE_SQL.BIT))
    ELSE IF (c.ch = ch.b \/ c.ch = ch.B) /\ c.chNext = ch.quote
         THEN Forward(text, SetState(c, SCE_SQL.BIT2))
    ELSE IF IsADigit(c.ch) \/ (c.ch = ch.dot /\ IsADigit(c.chNext))
         THEN SetState(c, SCE_SQL.NUMBER)
    ELSE IF c.ch = ch.at /\ iswordstart(c.chNext)
         THEN SetState(c, SCE_SQL.VARIABLE_)
    ELSE IF iswordstart(c.ch)
         THEN SetState(c, SCE_SQL.IDENTIFIER)
    ELSE IF c.ch = ch.backtick /\ o.sqlBackticksIdentifier
         THEN SetState(c, SCE_SQL.QUOTEDIDENTIFIER)
    ELSE IF Match(c, ch.slash, ch.star)
         THEN Forward(text, SetState(c, SCE_SQL.COMMENT))
    ELSE IF Match(c, ch.minus, ch.minus)
         THEN SetState(c, SCE_SQL.COMMENTLINE)
    ELSE IF c.ch = ch.hash /\ o.sqlNumbersignComment
         THEN SetState(c, SCE_SQL.COMMENTLINEDOC)
    ELSE IF c.ch = ch.quote
         THEN SetState(c, SCE_SQL.CHARACTER)
    ELSE IF c.ch = ch.dquote
         THEN SetState(c, SCE_SQL.STRING_)
    ELSE IF isoperator(c.ch)
         THEN SetState(c, SCE_SQL.OPERATOR)
    ELSE c

\* one pass of the for loop: the body, then sc.Forward()
ColouriseLoop(text, o, c) == Forward(text, Enter(text, o, Terminate(text, o, c)))

\* after the loop: an identifier still open is closed by jumping back to its
\* case, which runs the rest of the body and sc.Forward() once more (the
\* position does not move, so the loop ends again); then sc.Complete()
\* the end of the function without sc.Complete()
ColouriseEnd_incomplete(text, o, c) == c

\* the end of the function styling what is left as SCE_SQL_DEFAULT
ColouriseEnd_default(text, o, c) == Complete(ChangeState(c, SCE_SQL.DEFAULT))

RECURSIVE ColouriseEnd(_, _, _)
ColouriseEnd(text, o, c) ==
    IF c.state = SCE_SQL.IDENTIFIER
    THEN ColouriseEnd(text, o, Forward(text, Enter(text, o, Identifier(text, o, c))))
    ELSE Complete(c)

(***************************************************************************)
(* The calls of ColouriseSqlDoc.  A call runs from its begin step through  *)
(* one step per pass of the loop to its end step; nothing else runs in     *)
(* between.  trail.calls lists the calls begun, trail.log what each        *)
(* finished call left: the styles of the document and the write counts.    *)
(***************************************************************************)
\* the properties and keyword lists of the lexer; the properties of the folder
\* have their defaults
Setup(backticks, numbersign, backslash, dotted) ==
    [sqlBackticksIdentifier |-> backticks, sqlNumbersignComment |-> numbersign,
     sqlBackslashEscapes |-> backslash, sqlAllowDottedWord |-> dotted,
     fold |-> TRUE, foldOnlyBegin |-> FALSE, foldComment |-> TRUE,
     foldAtElse |-> FALSE, foldCompact |-> FALSE,
     keywords1 |-> {kw[w] : w \in DOMAIN kw},
     keywords2 |-> {<<ch.i, ch.n, ch.t>>},
     kw_user1 |-> {<<(<<ch.f>>), (<<>>)>>}]

\* the defaults of the four properties
DefaultSetup == Setup(TRUE, TRUE, TRUE, FALSE)

StyleAt(styles, pos) == IF pos \in DOMAIN styles THEN styles[pos] ELSE 0

\* a new Document: every style 0, every line at SC_FOLDLEVELBASE
Document(text, setup) ==
    [text |-> text,
     styles |-> [k \in 0..(Len(text) - 1) |-> 0],
     levels |-> [k \in 0..Len(text) |-> SC_FOLDLEVELBASE],
     setup |-> setup]

\* a call and the part it plays in its specification
LCall(role, startPos, length, initStyle) ==
    [op |-> "Colourise", role |-> role, startPos |-> startPos, length |-> length,
     initStyle |-> initStyle]

ColouriseBegin(role, startPos, length, initStyle) ==
    /\ pc = "idle"
    /\ sc' = StyleContext(styler.text, styler.styles, startPos, length, initStyle)
    /\ pc' = "colourise"
    /\ trail' = [trail EXCEPT !.calls = Append(@, LCall(role, startPos, length, initStyle))]
    /\ UNCHANGED <<styler, fold>>
    /\ UNCHANGED reVars

ColouriseStep ==
    /\ pc = "colourise"
    /\ More(sc)
    /\ sc' = ColouriseLoop(styler.text, styler.setup, sc)
    /\ UNCHANGED <<styler, fold, pc, trail>>
    /\ UNCHANGED reVars

ColouriseDone ==
    /\ pc = "colourise"
    /\ ~More(sc)
    /\ \E r \in {ColouriseEnd(styler.text, styler.setup, sc)} :
          /\ styler' = [styler EXCEPT !.styles = r.styles]
          /\ trail' = [trail EXCEPT !.log = Append(@, [styles |-> r.styles,
                                                       writes |-> r.writes])]
    /\ sc' = <<>>
    /\ pc' = "idle"
    /\ UNCHANGED fold
    /\ UNCHANGED reVars

(***************************************************************************)
(* The colourising specification: a document is opened with one of the     *)
(* texts below (every concatenation of at most two pieces, each piece a    *)
(* token of the lexer or a fragment of one) and lexed by a first call over *)
(* a prefix [0, p); then either the same call is made again, or the rest   *)
(* [p, N) is lexed with the style of position p - 1 as initStyle and       *)
(* finally the whole text in one call.                                     *)
(***************************************************************************)
LexPieces ==
    { <<ch.i, ch.f>>, <<ch.a>>, <<ch.space>>, <<ch.lf>>,
      <<ch.d0, ch.x, ch.d1>>, <<ch.d1, ch.e, ch.plus, ch.d1>>,
      <<ch.dot, ch.d1>>, <<ch.quote, ch.a, ch.quote>>,
      <<ch.dquote, ch.a, ch.dquote>>, <<ch.minus, ch.minus>>,
      <<ch.slash, ch.star, ch.a, ch.star, ch.slash>>, <<ch.hash>>,
      <<ch.at, ch.a>>, <<ch.backtick, ch.a, ch.backtick>>,
      <<ch.b, ch.quote, ch.d1, ch.quote>>,
      <<ch.x, ch.quote, ch.d1, ch.quote>>, <<ch.d0, ch.b, ch.d1>>,
      <<ch.lparen>>, <<ch.f>>, <<ch.i, ch.n, ch.t>>, <<ch.bslash>> }

LexTexts == {<<>>} \cup LexPieces \cup {a \o b : a \in LexPieces, b \in LexPieces}

LexSetups == {DefaultSetup, Setup(FALSE, FALSE, FALSE, TRUE)}

InitLex ==
    /\ InitRE
    /\ \E text \in LexTexts : \E setup \in LexSetups : Idle(Document(text, setup))

\* the last call begun
LastCall == trail.calls[Len(trail.calls)]

LexFirst ==
    /\ trail.calls = <<>>
    /\ \E p \in 0..Len(styler.text) : ColouriseBegin("first", 0, p, SCE_SQL.DEFAULT)

LexAgain ==
    /\ trail.calls # <<>>
    /\ LastCall.role \in {"first", "rest"}
    /\ ColouriseBegin("again", LastCall.startPos, LastCall.length, LastCall.initStyle)

LexRest ==
    /\ trail.calls # <<>>
    /\ LastCall.role = "first"
    /\ ColouriseBegin("rest", LastCall.length, Len(styler.text) - LastCall.length,
                      StyleAt(styler.styles, LastCall.length - 1))

LexWhole ==
    /\ trail.calls # <<>>
    /\ LastCall.role = "rest"
    /\ ColouriseBegin("whole", 0, Len(styler.text), SCE_SQL.DEFAULT)

NextLex ==
    LexFirst \/ LexAgain \/ LexRest \/ LexWhole \/ ColouriseStep \/ ColouriseDone

SpecLex == InitLex /\ [][NextLex]_vars

(***************************************************************************)
(* The SQL folder (LexSQL.cxx): SQLStates and FoldSqlDoc.                  *)
(*                                                                         *)
(* The state word of a line is an unsigned 16-bit integer: the count of    *)
(* nested CASE blocks in its low nine bits and one flag in each of the     *)
(* seven bits above.                                                       *)
(***************************************************************************)
MASK_NESTED_CASES == 511
MASK_INTO_SELECT_STATEMENT_OR_ASSIGNEMENT == 512
MASK_CASE_MERGE_WITHOUT_WHEN_FOUND == 1024
MASK_MERGE_STATEMENT == 2048
MASK_INTO_DECLARE == 4096
MASK_INTO_EXCEPTION == 8192
MASK_INTO_CONDITION == 16384
MASK_IGNORE_WHEN == 32768

\* (w & mask) != 0 for a mask of one bit
Has(w, mask) == (w \div mask) % 2 = 1

\* w |= mask or w &= ~mask for a mask of one bit
Flag(w, mask, enable) ==
    IF enable THEN (IF Has(w, mask) THEN w ELSE w + mask)
    ELSE (IF Has(w, mask) THEN w - mask ELSE w)

\* lev |= flag for a flag of one bit and a level word that is not negative
OrFlag(lev, flag) == IF Has(lev, flag) THEN lev ELSE lev + flag

IgnoreWhen(w, enable) == Flag(w, MASK_IGNORE_WHEN, enable)
IntoCondition(w, enable) == Flag(w, MASK_INTO_CONDITION, enable)
IntoExceptionBlock(w, enable) == Flag(w, MASK_INTO_EXCEPTION, enable)
IntoDeclareBlock(w, enable) == Flag(w, MASK_INTO_DECLARE, enable)
IntoMergeStatement(w, enable) == Flag(w, MASK_MERGE_STATEMENT, enable)
CaseMergeWithoutWhenFound(w, found) == Flag(w, MASK_CASE_MERGE_WITHOUT_WHEN_FOUND, found)
IntoSelectStatementOrAssignment(w, found) ==
    Flag(w, MASK_INTO_SELECT_STATEMENT_OR_ASSIGNEMENT, found)

\* the nested-CASE count of a state word: w & MASK_NESTED_CASES
NestedCases(w) == w % (MASK_NESTED_CASES + 1)

\* variant of BeginCaseBlock that counts on from 511
BeginCaseBlock_carry(w) == w + 1

BeginCaseBlock(w) == IF NestedCases(w) < MASK_NESTED_CASES THEN w + 1 ELSE w
EndCaseBlock(w) == IF NestedCases(w) > 0 THEN w - 1 ELSE w

IsIgnoreWhen(w) == Has(w, MASK_IGNORE_WHEN)
IsIntoCondition(w) == Has(w, MASK_INTO_CONDITION)
IsIntoCaseBlock(w) == NestedCases(w) # 0
IsIntoExceptionBlock(w) == Has(w, MASK_INTO_EXCEPTION)
IsIntoDeclareBlock(w) == Has(w, MASK_INTO_DECLARE)
IsIntoSelectStatementOrAssignment(w) == Has(w, MASK_INTO_SELECT_STATEMENT_OR_ASSIGNEMENT)
IsCaseMergeWithoutWhenFound(w) == Has(w, MASK_CASE_MERGE_WITHOUT_WHEN_FOUND)
IsIntoMergeStatement(w) == Has(w, MASK_MERGE_STATEMENT)

\* variant of SQLStatesSet that stores in every case
SQLStatesSet_always(sqlStatement, lineNumber, sqlStatesLine) ==
    [k \in 1..(lineNumber + 1) |->
        IF k = lineNumber + 1 THEN sqlStatesLine
        ELSE IF k <= Len(sqlStatement) THEN sqlStatement[k] ELSE 0]

\* SQLStates::Set on the vector sqlStatement, a sequence indexed from line 0:
\* resize(lineNumber + 1, 0), then store
SQLStatesSet(sqlStatement, lineNumber, sqlStatesLine) ==
    IF Len(sqlStatement) # 0 \/ sqlStatesLine # 0
    THEN [k \in 1..(lineNumber + 1) |->
             IF k = lineNumber + 1 THEN sqlStatesLine
             ELSE IF k <= Len(sqlStatement) THEN sqlStatement[k] ELSE 0]
    ELSE sqlStatement

\* SQLStates::ForLine
ForLine(sqlStatement, lineNumber) ==
    IF lineNumber > 0 /\ Len(sqlStatement) > lineNumber
    THEN sqlStatement[lineNumber + 1] ELSE 0

IsStreamCommentStyle(style) == style = SCE_SQL.COMMENT

IsCommentStyle(style) ==
    style = SCE_SQL.COMMENT \/ style = SCE_SQL.COMMENTLINE \/ style = SCE_SQL.COMMENTLINEDOC

\* IsLexCommentLine with the two line-comment styles: the first character of
\* the line after spaces and tabs has one of them
IsCommentLine(d, line) ==
    /\ line >= 0
    /\ line <= GetLine(d.text, Len(d.text))
    /\ LET from == LineStart(d.text, line)
           to == LineStart(d.text, line + 1)
           seen == {k \in from..(to - 1) : d.text[k + 1] \notin {ch.space, ch.tab}}
           pos == IF seen = {} THEN to ELSE CHOOSE k \in seen : \A j \in seen : k <= j
       IN StyleAt(d.styles, pos) \in {SCE_SQL.COMMENTLINE, SCE_SQL.COMMENTLINEDOC}

(***************************************************************************)
(* FoldSqlDoc.  d is the document (text, styles, levels, properties), o    *)
(* its properties, f the local variables of the call.                      *)
(***************************************************************************)
\* styler[pos]: the byte at pos, NUL past the end of the text
CharOf(d, pos) == SafeGetCharAt(d.text, pos, 0)

\* the local variables after the prologue
FoldLocals(d, startPos, length, initStyle) ==
    LET o == d.setup
        lineCurrent == GetLine(d.text, startPos)
        levelCurrent == IF lineCurrent > 0 THEN d.levels[lineCurrent - 1] \div 65536
                        ELSE SC_FOLDLEVELBASE
    IN [i |-> startPos,
        endPos |-> startPos + length,
        visibleChars |-> 0,
        lineCurrent |-> lineCurrent,
        levelCurrent |-> levelCurrent,
        levelNext |-> levelCurrent,
        ch |-> 0,
        chNext |-> CharOf(d, startPos),
        stylePrev |-> 0,
        style |-> initStyle,
        styleNext |-> StyleAt(d.styles, startPos),
        atEOL |-> FALSE,
        endFound |-> FALSE,
        isUnfoldingIgnored |-> FALSE,
        statementFound |-> FALSE,
        sqlStatement |-> <<>>,
        sqlStatesCurrentLine |-> IF o.foldOnlyBegin THEN ForLine(<<>>, lineCurrent) ELSE 0]

\* lines 422-427: the character, its style and its neighbours
ReadChar(d, f) ==
    [f EXCEPT !.ch = f.chNext,
              !.chNext = SafeGetCharAt(d.text, f.i + 1, ch.space),
              !.stylePrev = f.style,
              !.style = f.styleNext,
              !.styleNext = StyleAt(d.styles, f.i + 1),
              !.atEOL = \/ (f.chNext = ch.cr
                            /\ SafeGetCharAt(d.text, f.i + 1, ch.space) # ch.lf)
                        \/ f.chNext = ch.lf]

\* the end of a line or statement that leaves an exception block whether or
\* not an END came before it
EndOfStatement_always(f) ==
    IF f.atEOL \/ (~IsCommentStyle(f.style) /\ f.ch = ch.semicolon)
    THEN [f EXCEPT !.sqlStatesCurrentLine = IntoExceptionBlock(@, FALSE),
                   !.endFound = FALSE,
                   !.isUnfoldingIgnored = FALSE]
    ELSE f

\* lines 429-437: the end of a line or of a statement
EndOfStatement(f) ==
    IF f.atEOL \/ (~IsCommentStyle(f.style) /\ f.ch = ch.semicolon)
    THEN [f EXCEPT !.sqlStatesCurrentLine =
                       IF f.endFound THEN IntoExceptionBlock(@, FALSE) ELSE @,
                   !.endFound = FALSE,
                   !.isUnfoldingIgnored = FALSE]
    ELSE f

\* ';' that lowers the level once for every MERGE statement
Semicolon_once(f) ==
    IF ~IsCommentStyle(f.style) /\ f.ch = ch.semicolon
    THEN LET w == f.sqlStatesCurrentLine
             merge == IsIntoMergeStatement(w)
             w1 == IF merge THEN IntoMergeStatement(w, FALSE) ELSE w
         IN [f EXCEPT !.levelNext = IF merge THEN @ - 1 ELSE @,
                      !.sqlStatesCurrentLine =
                          IF IsIntoSelectStatementOrAssignment(w1)
                          THEN IntoSelectStatementOrAssignment(w1, FALSE) ELSE w1]
    ELSE f

\* lines 438-449: ';' closes a MERGE statement and a SELECT or assignment
Semicolon(f) ==
    IF ~IsCommentStyle(f.style) /\ f.ch = ch.semicolon
    THEN LET w == f.sqlStatesCurrentLine
             merge == IsIntoMergeStatement(w)
             w1 == IF merge THEN IntoMergeStatement(w, FALSE) ELSE w
         IN [f EXCEPT !.levelNext =
                          IF merge
                          THEN (IF ~IsCaseMergeWithoutWhenFound(w) THEN @ - 1 ELSE @) - 1
                          ELSE @,
                      !.sqlStatesCurrentLine =
                          IF IsIntoSelectStatementOrAssignment(w1)
                          THEN IntoSelectStatementOrAssignment(w1, FALSE) ELSE w1]
    ELSE f

\* lines 450-451: ':='
Assignment(f) ==
    IF f.ch = ch.colon /\ f.chNext = ch.equals /\ ~IsCommentStyle(f.style)
    THEN [f EXCEPT !.sqlStatesCurrentLine = IntoSelectStatementOrAssignment(@, TRUE)]
    ELSE f

\* lines 453-460: a stream comment is a fold
StreamComment(o, f) ==
    IF o.foldComment /\ IsStreamCommentStyle(f.style)
    THEN IF ~IsStreamCommentStyle(f.stylePrev)
         THEN [f EXCEPT !.levelNext = @ + 1]
         ELSE IF ~IsStreamCommentStyle(f.styleNext) /\ ~f.atEOL
              THEN [f EXCEPT !.levelNext = @ - 1]
              ELSE f
    ELSE f

\* lines 463-468: a group of comment lines is a fold
CommentLines(d, o, f) ==
    IF o.foldComment /\ f.atEOL /\ IsCommentLine(d, f.lineCurrent)
    THEN IF ~IsCommentLine(d, f.lineCurrent - 1) /\ IsCommentLine(d, f.lineCurrent + 1)
         THEN [f EXCEPT !.levelNext = @ + 1]
         ELSE IF IsCommentLine(d, f.lineCurrent - 1)
                 /\ ~IsCommentLine(d, f.lineCurrent + 1)
              THEN [f EXCEPT !.levelNext = @ - 1]
              ELSE f
    ELSE f

\* lines 469-479: parentheses, and ';' after EXIT
Operator(o, f) ==
    IF f.style = SCE_SQL.OPERATOR
    THEN IF f.ch = ch.lparen
         THEN [f EXCEPT !.levelCurrent = IF f.levelCurrent > f.levelNext THEN @ - 1 ELSE @,
                        !.levelNext = @ + 1]
         ELSE IF f.ch = ch.rparen
              THEN [f EXCEPT !.levelNext = @ - 1]
              ELSE IF o.foldOnlyBegin /\ f.ch = ch.semicolon
                   THEN [f EXCEPT !.sqlStatesCurrentLine = IgnoreWhen(@, FALSE)]
                   ELSE f
    ELSE f

\* lines 482-496: the word at position i in lower case, empty when it is
\* longer than MAX_KW_LEN
MAX_KW_LEN == 9

KeywordAt(d, i) ==
    LET j == CHOOSE n \in 0..(MAX_KW_LEN + 1) :
                 /\ \A m \in 0..(n - 1) : iswordchar(CharOf(d, i + m))
                 /\ (n = MAX_KW_LEN + 1 \/ ~iswordchar(CharOf(d, i + n)))
    IN IF j = MAX_KW_LEN + 1 THEN <<>>
       ELSE [m \in 1..j |-> MakeLowerCase(CharOf(d, i + m - 1))]

\* levelCurrent = levelNext when the line would otherwise hide its opener
DropToNext(f) ==
    IF f.levelCurrent > f.levelNext THEN [f EXCEPT !.levelCurrent = f.levelNext] ELSE f

\* lines 500-516: "if"
KwIf(o, f) ==
    IF f.endFound
    THEN [f EXCEPT !.endFound = FALSE,
                   !.levelNext = IF o.foldOnlyBegin /\ ~f.isUnfoldingIgnored
                                 THEN @ + 1 ELSE @]
    ELSE DropToNext([f EXCEPT !.sqlStatesCurrentLine =
                                  IF ~o.foldOnlyBegin THEN IntoCondition(@, TRUE) ELSE @])

\* "then" that does not record a statement on its line
KwThen_unrecorded(o, f) ==
    IF ~o.foldOnlyBegin
    THEN [DropToNext([f EXCEPT !.sqlStatesCurrentLine = IntoCondition(@, FALSE)])
             EXCEPT !.levelNext = IF ~f.statementFound THEN @ + 1 ELSE @]
    ELSE DropToNext([f EXCEPT !.sqlStatesCurrentLine = IntoCondition(@, FALSE)])

\* lines 517-531: "then" of an open condition
KwThen(o, f) ==
    IF ~o.foldOnlyBegin
    THEN [DropToNext([f EXCEPT !.sqlStatesCurrentLine = IntoCondition(@, FALSE)])
             EXCEPT !.levelNext = IF ~f.statementFound THEN @ + 1 ELSE @,
                    !.statementFound = TRUE]
    ELSE DropToNext([f EXCEPT !.sqlStatesCurrentLine = IntoCondition(@, FALSE)])

\* lines 532-562: "loop", "case", "while", "repeat"
KwLoop(o, f, s) ==
    IF f.endFound
    THEN LET ended == /\ ~o.foldOnlyBegin
                      /\ s = kw.case
             w == IF ended THEN EndCaseBlock(f.sqlStatesCurrentLine)
                  ELSE f.sqlStatesCurrentLine
         IN [f EXCEPT !.endFound = FALSE,
                      !.sqlStatesCurrentLine = w,
                      !.levelNext =
                          (IF o.foldOnlyBegin /\ ~f.isUnfoldingIgnored THEN @ + 1 ELSE @)
                          - (IF ended /\ ~IsCaseMergeWithoutWhenFound(w) THEN 1 ELSE 0)]
    ELSE IF ~o.foldOnlyBegin
         THEN [DropToNext([f EXCEPT !.sqlStatesCurrentLine =
                                       IF s = kw.case
                                       THEN CaseMergeWithoutWhenFound(BeginCaseBlock(@), TRUE)
                                       ELSE @])
                  EXCEPT !.levelNext = IF ~f.statementFound THEN @ + 1 ELSE @,
                         !.statementFound = TRUE]
         ELSE DropToNext(f)

\* lines 563-568: "elsif"
KwElsif(f) ==
    [f EXCEPT !.sqlStatesCurrentLine = IntoCondition(@, TRUE),
              !.levelCurrent = @ - 1,
              !.levelNext = @ - 1]

\* lines 569-580: "else"
KwElse(f) ==
    IF /\ IsIntoCaseBlock(f.sqlStatesCurrentLine)
       /\ IsCaseMergeWithoutWhenFound(f.sqlStatesCurrentLine)
    THEN [f EXCEPT !.statementFound = TRUE,
                   !.sqlStatesCurrentLine = CaseMergeWithoutWhenFound(@, FALSE),
                   !.levelNext = @ + 1]
    ELSE [f EXCEPT !.statementFound = TRUE, !.levelCurrent = @ - 1]

\* lines 581-583: "begin", "start"
KwBegin(f) ==
    [f EXCEPT !.levelNext = @ + 1,
              !.sqlStatesCurrentLine = IntoDeclareBlock(@, FALSE)]

\* lines 584-595: "end", "endif"
KwEnd(f) ==
    LET next == f.levelNext - 1
                - (IF /\ IsIntoSelectStatementOrAssignment(f.sqlStatesCurrentLine)
                      /\ ~IsCaseMergeWithoutWhenFound(f.sqlStatesCurrentLine)
                   THEN 1 ELSE 0)
    IN [f EXCEPT !.endFound = TRUE,
                 !.levelNext = IF next < SC_FOLDLEVELBASE THEN SC_FOLDLEVELBASE ELSE next,
                 !.isUnfoldingIgnored = IF next < SC_FOLDLEVELBASE THEN TRUE ELSE @]

\* "when" that drops a level whether or not a WHEN has been seen
KwWhen_drop(f) ==
    IF ~f.statementFound
    THEN [f EXCEPT !.sqlStatesCurrentLine =
                       CaseMergeWithoutWhenFound(IntoCondition(@, TRUE), FALSE),
                   !.levelCurrent = @ - 1,
                   !.levelNext = @ - 1]
    ELSE [f EXCEPT !.sqlStatesCurrentLine = IntoCondition(@, TRUE)]

\* lines 596-612: "when" of a CASE block or a MERGE statement
KwWhen(f) ==
    IF ~f.statementFound
    THEN LET drop == IF ~IsCaseMergeWithoutWhenFound(f.sqlStatesCurrentLine) THEN 1 ELSE 0
         IN [f EXCEPT !.sqlStatesCurrentLine =
                          CaseMergeWithoutWhenFound(IntoCondition(@, TRUE), FALSE),
                      !.levelCurrent = @ - drop,
                      !.levelNext = @ - drop]
    ELSE [f EXCEPT !.sqlStatesCurrentLine = IntoCondition(@, TRUE)]

\* lines 621-626: "merge"
KwMerge(f) ==
    [f EXCEPT !.sqlStatesCurrentLine =
                  CaseMergeWithoutWhenFound(IntoMergeStatement(@, TRUE), TRUE),
              !.levelNext = @ + 1,
              !.statementFound = TRUE]

\* lines 481-627: a new keyword
Keyword(d, o, f) ==
    IF f.style = SCE_SQL.WORD /\ f.stylePrev # SCE_SQL.WORD
    THEN LET w == f.sqlStatesCurrentLine
             only == o.foldOnlyBegin
             K(s) ==
                IF ~only /\ s = kw.select
                THEN [f EXCEPT !.sqlStatesCurrentLine =
                                   IntoSelectStatementOrAssignment(@, TRUE)]
                ELSE IF s = kw.if THEN KwIf(o, f)
                ELSE IF ~only /\ s = kw.then /\ IsIntoCondition(w) THEN KwThen(o, f)
                ELSE IF s \in {kw.loop, kw.case, kw.while, kw.repeat} THEN KwLoop(o, f, s)
                ELSE IF ~only /\ (o.foldAtElse /\ ~f.statementFound) /\ s = kw.elsif
                     THEN KwElsif(f)
                ELSE IF ~only /\ (o.foldAtElse /\ ~f.statementFound) /\ s = kw.else
                     THEN KwElse(f)
                ELSE IF s = kw.begin \/ s = kw.start THEN KwBegin(f)
                ELSE IF s = kw.end \/ s = kw.endif THEN KwEnd(f)
                ELSE IF /\ ~only
                        /\ s = kw.when
                        /\ ~IsIgnoreWhen(w)
                        /\ ~IsIntoExceptionBlock(w)
                        /\ (IsIntoCaseBlock(w) \/ IsIntoMergeStatement(w))
                     THEN KwWhen(f)
                ELSE IF ~only /\ s = kw.exit
                     THEN [f EXCEPT !.sqlStatesCurrentLine = IgnoreWhen(@, TRUE)]
                ELSE IF ~only /\ ~IsIntoDeclareBlock(w) /\ s = kw.exception
                     THEN [f EXCEPT !.sqlStatesCurrentLine = IntoExceptionBlock(@, TRUE)]
                ELSE IF ~only /\ s \in {kw.declare, kw.function, kw.procedure, kw.package}
                     THEN [f EXCEPT !.sqlStatesCurrentLine = IntoDeclareBlock(@, TRUE)]
                ELSE IF ~only /\ s = kw.merge THEN KwMerge(f)
                ELSE f
         IN K(KeywordAt(d, f.i))
    ELSE f

\* lines 628-630
VisibleChar(f) ==
    IF ~isspacechar(f.ch) THEN [f EXCEPT !.visibleChars = @ + 1] ELSE f

\* the body of the loop up to the end-of-line test
FoldChar(d, f) ==
    VisibleChar(Keyword(d, d.setup,
       Operator(d.setup, CommentLines(d, d.setup, StreamComment(d.setup,
          Assignment(Semicolon(EndOfStatement(ReadChar(d, f)))))))))

\* line 631: the line is complete
LineDone(f) == f.atEOL \/ f.i = f.endPos - 1

\* the level word with the header flag also on a line that keeps its level
LevelWord_level(o, f) ==
    LET lev == f.levelCurrent + f.levelNext * 65536
        white == IF f.visibleChars = 0 /\ o.foldCompact
                 THEN OrFlag(lev, SC_FOLDLEVELWHITEFLAG) ELSE lev
    IN IF f.levelCurrent <= f.levelNext THEN OrFlag(white, SC_FOLDLEVELHEADERFLAG)
       ELSE white

\* lines 632-637: the level word of the line.  levelUse | levelNext << 16 is
\* their sum while 0 <= levelUse < 65536 and levelNext >= 0.
LevelWord(o, f) ==
    LET lev == f.levelCurrent + f.levelNext * 65536
        white == IF f.visibleChars = 0 /\ o.foldCompact
                 THEN OrFlag(lev, SC_FOLDLEVELWHITEFLAG) ELSE lev
    IN IF f.levelCurrent < f.levelNext THEN OrFlag(white, SC_FOLDLEVELHEADERFLAG)
       ELSE white

\* lines 638-640: styler.SetLevel
SetLevel(o, levels, f) ==
    IF LineDone(f) THEN [levels EXCEPT ![f.lineCurrent] = LevelWord(o, f)] ELSE levels

\* lines 641-647 and i++
NextChar(o, f) ==
    IF LineDone(f)
    THEN [f EXCEPT !.lineCurrent = @ + 1,
                   !.levelCurrent = f.levelNext,
                   !.visibleChars = 0,
                   !.statementFound = FALSE,
                   !.sqlStatement =
                       IF ~o.foldOnlyBegin
                       THEN SQLStatesSet(@, f.lineCurrent + 1, f.sqlStatesCurrentLine)
                       ELSE @,
                   !.i = @ + 1]
    ELSE [f EXCEPT !.i = @ + 1]

(***************************************************************************)
(* The calls of FoldSqlDoc: a begin step, one step per character, an end   *)
(* step.  The SQLStates object is a local of the call and ends with it.    *)
(***************************************************************************)
FoldSetup(foldOnlyBegin, foldComment, foldAtElse, foldCompact) ==
    [DefaultSetup EXCEPT !.foldOnlyBegin = foldOnlyBegin, !.foldComment = foldComment,
                         !.foldAtElse = foldAtElse, !.foldCompact = foldCompact]

FCall(role, startPos, length, initStyle) ==
    [op |-> "Fold", role |-> role, startPos |-> startPos, length |-> length,
     initStyle |-> initStyle]

FoldBegin(role, startPos, length, initStyle) ==
    /\ pc = "idle"
    /\ IF styler.setup.fold
       THEN /\ fold' = FoldLocals(styler, startPos, length, initStyle)
            /\ pc' = "fold"
       ELSE UNCHANGED <<fold, pc>>
    /\ trail' = [trail EXCEPT !.calls = Append(@, FCall(role, startPos, length, initStyle))]
    /\ UNCHANGED <<styler, sc>>
    /\ UNCHANGED reVars

FoldStep ==
    /\ pc = "fold"
    /\ fold.i < fold.endPos
    /\ \E g \in {FoldChar(styler, fold)} :
          /\ styler' = [styler EXCEPT !.levels = SetLevel(styler.setup, @, g)]
          /\ fold' = NextChar(styler.setup, g)
    /\ UNCHANGED <<sc, pc, trail>>
    /\ UNCHANGED reVars

FoldDone ==
    /\ pc = "fold"
    /\ fold.i >= fold.endPos
    /\ pc' = "idle"
    /\ fold' = <<>>
    /\ trail' = [trail EXCEPT !.log = Append(@, [levels |-> styler.levels,
                                                 last |-> fold])]
    /\ UNCHANGED <<styler, sc>>
    /\ UNCHANGED reVars

(***************************************************************************)
(* The folding specification: a document is opened with one of the texts   *)
(* below and one of the property settings, lexed in one call, and folded:  *)
(* by a first call over the lines before a line start p (or over the whole *)
(* text), then by a call over the rest and finally by one call over the    *)
(* whole text.                                                             *)
(***************************************************************************)
FoldTokens ==
    { <<ch.c, ch.a, ch.s, ch.e, ch.space>>,
      <<ch.w, ch.h, ch.e, ch.n, ch.space>>,
      <<ch.t, ch.h, ch.e, ch.n, ch.space>>, <<ch.e, ch.n, ch.d, ch.space>>,
      <<ch.m, ch.e, ch.r, ch.g, ch.e, ch.space>>,
      <<ch.e, ch.x, ch.i, ch.t, ch.space>>, <<ch.i, ch.f, ch.space>>,
      <<ch.e, ch.l, ch.s, ch.e, ch.space>>,
      <<ch.e, ch.l, ch.s, ch.i, ch.f, ch.space>>,
      <<ch.b, ch.e, ch.g, ch.i, ch.n, ch.space>>,
      <<ch.s, ch.e, ch.l, ch.e, ch.c, ch.t, ch.space>>,
      <<ch.l, ch.o, ch.o, ch.p, ch.space>>, <<ch.semicolon>>, <<ch.lparen>>,
      <<ch.rparen>>, <<ch.lf>>, <<ch.colon, ch.equals>>,
      <<ch.slash, ch.star, ch.star, ch.slash>>, <<ch.minus, ch.minus, ch.lf>>,
      <<ch.x, ch.space>>,
      <<ch.e, ch.x, ch.c, ch.e, ch.p, ch.t, ch.i, ch.o, ch.n, ch.space>>,
      <<ch.d, ch.e, ch.c, ch.l, ch.a, ch.r, ch.e, ch.space>> }

\* the line of two nested CASE expressions
NestedCaseLine ==
    << ch.C, ch.A, ch.S, ch.E, ch.space, ch.x, ch.space, ch.W, ch.H, ch.E,
       ch.N, ch.space, ch.d1, ch.space, ch.T, ch.H, ch.E, ch.N, ch.space,
       ch.C, ch.A, ch.S, ch.E, ch.space, ch.y, ch.space, ch.W, ch.H, ch.E,
       ch.N, ch.space, ch.d2, ch.space, ch.T, ch.H, ch.E, ch.N, ch.space,
       ch.quote, ch.a, ch.quote, ch.space, ch.E, ch.N, ch.D, ch.space, ch.E,
       ch.N, ch.D >>

\* a line that opens a block
BeginLine ==
    << ch.b, ch.e, ch.g, ch.i, ch.n, ch.lf >>

\* a MERGE statement without WHEN
MergeNoWhen ==
    << ch.m, ch.e, ch.r, ch.g, ch.e, ch.space, ch.x, ch.semicolon >>

\* a MERGE statement with its WHEN ... THEN clauses on the MERGE line
MergeOneLine ==
    << ch.m, ch.e, ch.r, ch.g, ch.e, ch.space, ch.x, ch.space, ch.w, ch.h,
       ch.e, ch.n, ch.space, ch.a, ch.space, ch.t, ch.h, ch.e, ch.n, ch.space,
       ch.b, ch.space, ch.w, ch.h, ch.e, ch.n, ch.space, ch.c, ch.space, ch.t,
       ch.h, ch.e, ch.n, ch.space, ch.d, ch.semicolon >>

\* a MERGE statement with its WHEN ... THEN clauses on the following lines
MergeLines ==
    << ch.m, ch.e, ch.r, ch.g, ch.e, ch.space, ch.x, ch.lf, ch.w, ch.h, ch.e,
       ch.n, ch.space, ch.a, ch.space, ch.t, ch.h, ch.e, ch.n, ch.space, ch.b,
       ch.lf, ch.w, ch.h, ch.e, ch.n, ch.space, ch.c, ch.space, ch.t, ch.h,
       ch.e, ch.n, ch.space, ch.d, ch.semicolon >>

\* a MERGE statement with a WHEN ... THEN clause and the ';' on lines of their own
MergeSemicolonLine ==
    << ch.m, ch.e, ch.r, ch.g, ch.e, ch.space, ch.x, ch.lf, ch.w, ch.h, ch.e,
       ch.n, ch.space, ch.a, ch.space, ch.t, ch.h, ch.e, ch.n, ch.space, ch.b,
       ch.lf, ch.semicolon >>

\* a CASE statement with an EXIT in front of its WHEN
ExitInCase ==
    << ch.c, ch.a, ch.s, ch.e, ch.space, ch.x, ch.lf, ch.e, ch.x, ch.i, ch.t,
       ch.semicolon, ch.lf, ch.w, ch.h, ch.e, ch.n, ch.space, ch.d1, ch.space,
       ch.t, ch.h, ch.e, ch.n, ch.space, ch.a, ch.semicolon, ch.lf, ch.e,
       ch.n, ch.d, ch.space, ch.c, ch.a, ch.s, ch.e, ch.semicolon >>

\* a CASE statement of four lines
CaseLines ==
    << ch.c, ch.a, ch.s, ch.e, ch.space, ch.x, ch.lf, ch.w, ch.h, ch.e, ch.n,
       ch.space, ch.d1, ch.space, ch.t, ch.h, ch.e, ch.n, ch.space, ch.a,
       ch.semicolon, ch.lf, ch.w, ch.h, ch.e, ch.n, ch.space, ch.d2, ch.space,
       ch.t, ch.h, ch.e, ch.n, ch.space, ch.b, ch.semicolon, ch.lf, ch.e,
       ch.n, ch.d, ch.space, ch.c, ch.a, ch.s, ch.e, ch.semicolon >>

\* an IF statement with its ELSE on one line
IfElseLine ==
    << ch.I, ch.F, ch.space, ch.a, ch.space, ch.T, ch.H, ch.E, ch.N, ch.space,
       ch.b, ch.semicolon, ch.space, ch.E, ch.L, ch.S, ch.E, ch.space, ch.c,
       ch.semicolon, ch.space, ch.E, ch.N, ch.D, ch.space, ch.I, ch.F,
       ch.semicolon >>

\* an IF statement with its ELSIF on one line
IfElsifLine ==
    << ch.i, ch.f, ch.space, ch.a, ch.space, ch.t, ch.h, ch.e, ch.n, ch.space,
       ch.b, ch.semicolon, ch.space, ch.e, ch.l, ch.s, ch.i, ch.f, ch.space,
       ch.c, ch.space, ch.t, ch.h, ch.e, ch.n, ch.space, ch.d, ch.semicolon,
       ch.space, ch.e, ch.n, ch.d, ch.space, ch.i, ch.f, ch.semicolon >>

\* a block whose exception handler holds a CASE statement
ExceptionBlock ==
    << ch.b, ch.e, ch.g, ch.i, ch.n, ch.lf, ch.e, ch.x, ch.c, ch.e, ch.p,
       ch.t, ch.i, ch.o, ch.n, ch.lf, ch.w, ch.h, ch.e, ch.n, ch.space, ch.a,
       ch.space, ch.t, ch.h, ch.e, ch.n, ch.lf, ch.c, ch.a, ch.s, ch.e,
       ch.space, ch.x, ch.lf, ch.w, ch.h, ch.e, ch.n, ch.space, ch.d1,
       ch.space, ch.t, ch.h, ch.e, ch.n, ch.space, ch.b, ch.semicolon, ch.lf,
       ch.e, ch.n, ch.d, ch.space, ch.c, ch.a, ch.s, ch.e, ch.semicolon,
       ch.lf, ch.e, ch.n, ch.d, ch.semicolon >>

\* an assignment followed by END IF in the same statement
AssignEndIf ==
    << ch.x, ch.colon, ch.equals, ch.a, ch.space, ch.e, ch.n, ch.d, ch.space,
       ch.i, ch.f, ch.semicolon >>

\* the statements above, each alone and after a line that opens a block
FoldScenarios ==
    LET alone == { NestedCaseLine, MergeNoWhen, MergeOneLine, MergeLines,
                   MergeSemicolonLine,
                   ExitInCase, CaseLines, IfElseLine, IfElsifLine, AssignEndIf }
    IN alone \cup {BeginLine \o t : t \in alone} \cup {ExceptionBlock}

FoldTexts ==
    FoldTokens \cup {a \o b : a \in FoldTokens, b \in FoldTokens} \cup FoldScenarios

FoldSetups ==
    { DefaultSetup, FoldSetup(TRUE, TRUE, FALSE, FALSE),
      FoldSetup(FALSE, TRUE, TRUE, FALSE), FoldSetup(FALSE, FALSE, FALSE, TRUE),
      FoldSetup(TRUE, TRUE, TRUE, FALSE) }

InitFold ==
    /\ InitRE
    /\ \E text \in FoldTexts : \E setup \in FoldSetups : Idle(Document(text, setup))

\* the positions a line starts at, and the end of the text
LineStarts(text) == {0, Len(text)} \cup {k + 1 : k \in LineEnds(text)}

FoldLex ==
    /\ trail.calls = <<>>
    /\ ColouriseBegin("lex", 0, Len(styler.text), SCE_SQL.DEFAULT)

FoldFirst ==
    /\ trail.calls # <<>>
    /\ LastCall.role = "lex"
    /\ \E p \in LineStarts(styler.text) : FoldBegin("first", 0, p, SCE_SQL.DEFAULT)

FoldRest ==
    /\ trail.calls # <<>>
    /\ LastCall.role = "first"
    /\ LastCall.length < Len(styler.text)
    /\ FoldBegin("rest", LastCall.length, Len(styler.text) - LastCall.length,
                 StyleAt(styler.styles, LastCall.length - 1))

FoldWhole ==
    /\ trail.calls # <<>>
    /\ LastCall.role = "rest"
    /\ FoldBegin("whole", 0, Len(styler.text), SCE_SQL.DEFAULT)

NextFold ==
    \/ FoldLex \/ ColouriseStep \/ ColouriseDone
    \/ FoldFirst \/ FoldRest \/ FoldWhole \/ FoldStep \/ FoldDone

SpecFold == InitFold /\ [][NextFold]_vars

(***************************************************************************)
(* Properties of the colourising specification.                            *)
(***************************************************************************)
\* the positions of the document in the range of the i-th call
Requested(i) ==
    {k \in 0..(Len(styler.text) - 1) :
        /\ k >= trail.calls[i].startPos
        /\ k < trail.calls[i].startPos + trail.calls[i].length}

\* C12: a finished Colourise call has styled every position of its range
\* exactly once, with a style of the lexer, and the same call made again on
\* the document leaves the same style at every position of the document.
C12_OneStyleAndIdempotent ==
    \A i \in 1..Len(trail.log) :
       /\ \A k \in Requested(i) :
             /\ trail.log[i].writes[k] = 1
             /\ trail.log[i].styles[k] \in Styles
       /\ trail.calls[i].role = "again" => trail.log[i].styles = trail.log[i - 1].styles

\* a repeated call has finished on a text with a keyword and another token
C12_Witness ==
    /\ Len(trail.log) = 2
    /\ trail.calls[2].role = "again"
    /\ trail.calls[2].length = Len(styler.text)
    /\ Len(styler.text) >= 3
    /\ \E k \in DOMAIN styler.styles : styler.styles[k] = SCE_SQL.WORD
    /\ \E k \in DOMAIN styler.styles : styler.styles[k] = SCE_SQL.OPERATOR

\* the styles of strings and comments
StringOrComment ==
    { SCE_SQL.COMMENT, SCE_SQL.COMMENTLINE, SCE_SQL.COMMENTLINEDOC,
      SCE_SQL.CHARACTER, SCE_SQL.STRING_ }

\* the split run Colourise(0, p, 0), Colourise(p, N - p, styleAt(p - 1)) and
\* then the single run Colourise(0, N, 0) have finished
SplitAndWhole ==
    /\ Len(trail.log) = 3
    /\ trail.calls[2].role = "rest"
    /\ trail.calls[3].role = "whole"

SplitPoint == trail.calls[2].startPos

\* the styles the split run left, and the styles the single run left
SplitStyles == trail.log[2].styles

WholeStyles == trail.log[3].styles

\* the split point lies in a string or comment of the single run
InStringOrComment ==
    \/ StyleAt(WholeStyles, SplitPoint - 1) \in StringOrComment
    \/ StyleAt(WholeStyles, SplitPoint) \in StringOrComment

\* C13 (as stated): for every split point p not inside a string or comment,
\* the split run leaves the same styles as the single run.
C13_Restartable ==
    (SplitAndWhole /\ ~InStringOrComment) => SplitStyles = WholeStyles

\* C13 (amended): for every split point p where the single run leaves the
\* style DEFAULT, OPERATOR or VARIABLE at position p - 1 (or p = 0), that is,
\* not in or right after a number, a hex or bit literal, an identifier, a
\* keyword, a quoted identifier, a string or a comment, the split run leaves
\* the same styles as the single run.
C13_RestartableAtBoundary ==
    (/\ SplitAndWhole
     /\ StyleAt(WholeStyles, SplitPoint - 1)
           \in {SCE_SQL.DEFAULT, SCE_SQL.OPERATOR, SCE_SQL.VARIABLE_})
       => SplitStyles = WholeStyles

\* a split after white space, in front of a keyword, has been lexed both ways
C13_Witness ==
    /\ SplitAndWhole
    /\ SplitPoint > 0
    /\ SplitPoint < Len(styler.text)
    /\ WholeStyles[SplitPoint - 1] = SCE_SQL.DEFAULT
    /\ WholeStyles[SplitPoint] = SCE_SQL.WORD
    /\ SplitStyles = WholeStyles

(***************************************************************************)
(* Properties of the folding specification.                                *)
(***************************************************************************)
\* the fields of a level word: the level of the line, the level of the next
\* line, and the header flag
LevelOf(w) == w % SC_FOLDLEVELWHITEFLAG
NextLevelOf(w) == w \div 65536
IsHeader(w) == Has(w, SC_FOLDLEVELHEADERFLAG)

\* the lines whose level word the i-th call computed, none for a Colourise
\* call
FoldedLines(i) ==
    IF trail.calls[i].op = "Fold" /\ trail.calls[i].length > 0
    THEN GetLine(styler.text, trail.calls[i].startPos)
            .. GetLine(styler.text, trail.calls[i].startPos + trail.calls[i].length - 1)
    ELSE {}

\* C14: for every line whose level word a Fold call computed, neither the
\* stored level nor the stored next-level is below SC_FOLDLEVELBASE, whatever
\* the text and the properties.
C14_LevelsAtLeastBase ==
    \A i \in 1..Len(trail.log) : \A k \in FoldedLines(i) :
       /\ LevelOf(trail.log[i].levels[k]) >= SC_FOLDLEVELBASE
       /\ NextLevelOf(trail.log[i].levels[k]) >= SC_FOLDLEVELBASE

\* C15: for every line whose level word a Fold call computed, the header flag
\* is set if and only if the stored next-level is greater than the stored
\* level of the line.
C15_HeaderIffDeeper ==
    \A i \in 1..Len(trail.log) : \A k \in FoldedLines(i) :
       IsHeader(trail.log[i].levels[k])
          <=> NextLevelOf(trail.log[i].levels[k]) > LevelOf(trail.log[i].levels[k])

\* a Fold call over the whole of a text of three lines or more has stored a
\* header line, a line that keeps its level and a line that lowers it
C15_Witness ==
    /\ Len(trail.log) = 2
    /\ trail.calls[2].op = "Fold"
    /\ trail.calls[2].length = Len(styler.text)
    /\ \E k \in FoldedLines(2) : IsHeader(styler.levels[k])
    /\ \E k \in FoldedLines(2) :
          NextLevelOf(styler.levels[k]) = LevelOf(styler.levels[k])
    /\ \E k \in FoldedLines(2) :
          NextLevelOf(styler.levels[k]) < LevelOf(styler.levels[k])

\* the split run Fold(0, p), Fold(p, N - p) and then the single run
\* Fold(0, N) have finished
FoldSplitAndWhole ==
    /\ Len(trail.log) = 4
    /\ trail.calls[3].role = "rest"
    /\ trail.calls[4].role = "whole"

\* the Fold call over the rest of the text, from the line start p, is at its
\* first character
AtRestart ==
    /\ pc = "fold"
    /\ LastCall.role = "rest"
    /\ fold.i = LastCall.startPos

\* C16: with the default properties, a Fold call that starts at a line start
\* p resumes from the state word the call before reached at the end of the
\* line before p, and for every styled text and every line start p the split
\* run Fold(0, p), Fold(p, N - p) stores the same level word on every line as
\* the single run Fold(0, N).
C16_FoldRestartable ==
    styler.setup = DefaultSetup =>
       /\ AtRestart =>
             fold.sqlStatesCurrentLine = trail.log[2].last.sqlStatesCurrentLine
       /\ FoldSplitAndWhole => trail.log[3].levels = trail.log[4].levels

\* the last call is a finished Fold call over the whole text
WholeFolded ==
    /\ trail.calls # <<>>
    /\ Len(trail.log) = Len(trail.calls)
    /\ LastCall.op = "Fold"
    /\ LastCall.startPos = 0
    /\ LastCall.length = Len(styler.text)

\* the local variables the last finished Fold call ended with
LastFold == trail.log[Len(trail.log)].last

\* the level word of the last line of the text
LastLineWord == styler.levels[GetLine(styler.text, Len(styler.text) - 1)]

\* the position the nested CASE line starts at, in the two texts that hold it
NestedCaseStart == IF styler.text = NestedCaseLine THEN 0 ELSE Len(BeginLine)

\* C17: folding the line CASE x WHEN 1 THEN CASE y WHEN 2 THEN 'a' END END
\* from state word 0, at the base level or one level deeper, has the
\* NESTED_CASES field at 2 from the second CASE to the first END and at 0 at
\* the end of the line, and the next-level of the line equals its level.
C17_NestedCaseBalanced ==
    (/\ styler.text \in {NestedCaseLine, BeginLine \o NestedCaseLine}
     /\ ~styler.setup.foldOnlyBegin)
       => /\ (/\ pc = "fold"
              /\ fold.i > NestedCaseStart + 19
              /\ fold.i <= NestedCaseStart + 42)
                => NestedCases(fold.sqlStatesCurrentLine) = 2
          /\ WholeFolded
                => /\ NestedCases(LastFold.sqlStatesCurrentLine) = 0
                   /\ NextLevelOf(LastLineWord) = LevelOf(LastLineWord)

\* the next step of the Fold call reads a ';' outside comments while the state
\* word has IN_MERGE
AtSemicolonInMerge ==
    /\ pc = "fold"
    /\ fold.i < fold.endPos
    /\ CharOf(styler, fold.i) = ch.semicolon
    /\ ~IsCommentStyle(StyleAt(styler.styles, fold.i))
    /\ IsIntoMergeStatement(fold.sqlStatesCurrentLine)

\* the step has cleared IN_MERGE and IN_SELECT_OR_ASSIGN and lowered the
\* pending level by drop
MergeClosedBy(drop) ==
    /\ ~IsIntoMergeStatement(fold'.sqlStatesCurrentLine)
    /\ ~IsIntoSelectStatementOrAssignment(fold'.sqlStatesCurrentLine)
    /\ fold'.levelNext = fold.levelNext - drop

\* C18 (as stated): at a ';' outside comments while IN_MERGE is set, Fold
\* clears IN_MERGE and IN_SELECT_OR_ASSIGN and lowers the pending level by 1,
\* or by 2 if CASE_MERGE_NO_WHEN is still set.
C18_SemicolonClosesMerge ==
    [][AtSemicolonInMerge =>
          MergeClosedBy(IF IsCaseMergeWithoutWhenFound(fold.sqlStatesCurrentLine)
                        THEN 2 ELSE 1)]_vars

\* C18 (amended): at a ';' outside comments while IN_MERGE is set, Fold
\* clears IN_MERGE and IN_SELECT_OR_ASSIGN and lowers the pending level by 2,
\* or by 1 if CASE_MERGE_NO_WHEN is still set.
C18_SemicolonClosesMergeAndWhen ==
    [][AtSemicolonInMerge =>
          MergeClosedBy(IF IsCaseMergeWithoutWhenFound(fold.sqlStatesCurrentLine)
                        THEN 1 ELSE 2)]_vars

\* the ';' of a MERGE statement with a WHEN clause on a line of its own has
\* been folded: the line of the ';' starts two levels above the level it leaves
C18_Witness ==
    /\ styler.text = MergeSemicolonLine
    /\ pc = "fold"
    /\ LastCall.length = Len(styler.text)
    /\ fold.i = Len(styler.text)
    /\ ~IsIntoMergeStatement(fold.sqlStatesCurrentLine)
    /\ ~IsCaseMergeWithoutWhenFound(fold.sqlStatesCurrentLine)
    /\ LevelOf(LastLineWord) = SC_FOLDLEVELBASE + 2
    /\ NextLevelOf(LastLineWord) = SC_FOLDLEVELBASE

\* the next step of the Fold call reads the first character of the keyword s
AtKeyword(s) ==
    /\ pc = "fold"
    /\ fold.i < fold.endPos
    /\ fold.styleNext = SCE_SQL.WORD
    /\ fold.style # SCE_SQL.WORD
    /\ KeywordAt(styler, fold.i) = s

\* the step of MERGE raises the pending level by 1 and sets IN_MERGE and
\* CASE_MERGE_NO_WHEN
MergeRaises ==
    AtKeyword(kw.merge) =>
       /\ fold'.levelNext = fold.levelNext + 1
       /\ IsIntoMergeStatement(fold'.sqlStatesCurrentLine)
       /\ IsCaseMergeWithoutWhenFound(fold'.sqlStatesCurrentLine)

\* the next step reads a WHEN of a MERGE statement that has its credit:
\* IN_MERGE and CASE_MERGE_NO_WHEN, neither IGNORE_WHEN nor IN_EXCEPTION
AtFirstWhen ==
    /\ AtKeyword(kw.when)
    /\ IsIntoMergeStatement(fold.sqlStatesCurrentLine)
    /\ IsCaseMergeWithoutWhenFound(fold.sqlStatesCurrentLine)
    /\ ~IsIgnoreWhen(fold.sqlStatesCurrentLine)
    /\ ~IsIntoExceptionBlock(fold.sqlStatesCurrentLine)

\* the MERGE statements of the four shapes, alone and after a line that opens
\* a block, and the line their MERGE is on
MergeStatements == {MergeNoWhen, MergeOneLine, MergeLines, MergeSemicolonLine}

MergeLineOf(text) == IF text \in MergeStatements THEN 0 ELSE 1

\* a Fold call over the whole of one of these texts has left the next-level of
\* the line of the ';' at the level of the line of the MERGE
MergeBalanced ==
    (/\ WholeFolded
     /\ styler.text \in MergeStatements \cup {BeginLine \o t : t \in MergeStatements})
       => NextLevelOf(LastLineWord) = LevelOf(styler.levels[MergeLineOf(styler.text)])

\* C19 (as stated): MERGE raises the pending level by 1, the first WHEN
\* clears the without-WHEN credit and leaves the level, and the ';' returns
\* the level to its value before MERGE, whether the statement has no WHEN,
\* has its WHEN ... THEN clauses on the MERGE line, or has them on following
\* lines.
C19_MergeBalanced ==
    /\ [][/\ MergeRaises
          /\ AtFirstWhen =>
                /\ fold'.levelNext = fold.levelNext
                /\ ~IsCaseMergeWithoutWhenFound(fold'.sqlStatesCurrentLine)]_vars
    /\ []MergeBalanced

\* C19 (amended): with fold.sql.only.begin = 0, MERGE raises the pending
\* level by 1; the first WHEN leaves the level, and clears the without-WHEN
\* credit exactly when no statement came before it on its line, so not on the
\* MERGE line; and the ';' returns the level to its value before MERGE in
\* each of the shapes.
C19_MergeBalancedByLine ==
    /\ [][~styler.setup.foldOnlyBegin =>
             /\ MergeRaises
             /\ AtFirstWhen =>
                   /\ fold'.levelNext = fold.levelNext
                   /\ IsCaseMergeWithoutWhenFound(fold'.sqlStatesCurrentLine)
                         <=> fold.statementFound]_vars
    /\ []MergeBalanced

\* a MERGE statement with two WHEN lines inside a block has been folded: the
\* MERGE line opens one level, the first WHEN line a second, and the line of
\* the ';' returns to the level of the MERGE line
C19_Witness ==
    /\ WholeFolded
    /\ styler.text = BeginLine \o MergeLines
    /\ ~styler.setup.foldOnlyBegin
    /\ LevelOf(styler.levels[1]) = SC_FOLDLEVELBASE + 1
    /\ NextLevelOf(styler.levels[1]) = SC_FOLDLEVELBASE + 2
    /\ NextLevelOf(styler.levels[2]) = SC_FOLDLEVELBASE + 3
    /\ NextLevelOf(LastLineWord) = SC_FOLDLEVELBASE + 1

\* the next step of the Fold call reads a ';' outside comments while the state
\* word has IGNORE_WHEN
AtSemicolonAfterExit ==
    /\ pc = "fold"
    /\ fold.i < fold.endPos
    /\ CharOf(styler, fold.i) = ch.semicolon
    /\ ~IsCommentStyle(StyleAt(styler.styles, fold.i))
    /\ IsIgnoreWhen(fold.sqlStatesCurrentLine)

\* C20: with fold.sql.only.begin = 0, the first ';' outside comments after an
\* EXIT clears IGNORE_WHEN, and the WHEN line that follows "exit;" in a CASE
\* statement is folded as a WHEN: its THEN makes it a header line.
C20_SemicolonClearsIgnoreWhen ==
    /\ [][(~styler.setup.foldOnlyBegin /\ AtSemicolonAfterExit)
             => ~IsIgnoreWhen(fold'.sqlStatesCurrentLine)]_vars
    /\ []((/\ WholeFolded
            /\ styler.text = ExitInCase
            /\ ~styler.setup.foldOnlyBegin)
              => IsHeader(styler.levels[2]))

\* a keyword starts at position j: the style WORD after another style
KeywordStartsAt(j) ==
    /\ StyleAt(styler.styles, j) = SCE_SQL.WORD
    /\ StyleAt(styler.styles, j - 1) # SCE_SQL.WORD

\* the positions of the line being folded that lie before the next character
EarlierOnLine == LineStart(styler.text, fold.lineCurrent)..(fold.i - 1)

\* one of the keywords of the set words starts at position j
KeywordOf(words, j) == KeywordStartsAt(j) /\ KeywordAt(styler, j) \in words

\* the line being folded has, before the next character, an opener that no
\* END precedes: CASE, LOOP, WHILE or REPEAT, or a THEN after an IF
OpenerEarlierOnLine ==
    /\ \A j \in EarlierOnLine : ~KeywordOf({kw.end, kw.endif}, j)
    /\ \/ \E j \in EarlierOnLine : KeywordOf({kw.case, kw.loop, kw.while, kw.repeat}, j)
       \/ \E j \in EarlierOnLine : \E k \in EarlierOnLine :
             j < k /\ KeywordOf({kw.if}, j) /\ KeywordOf({kw.then}, k)

\* a Fold call over the whole of a one-line IF statement, alone or inside a
\* block, has finished
OneLineIfFolded ==
    /\ WholeFolded
    /\ styler.text \in {IfElseLine, IfElsifLine,
                        BeginLine \o IfElseLine, BeginLine \o IfElsifLine}

\* C21: with fold.sql.at.else = 1, an ELSE or ELSIF that has its opener
\* earlier on its line changes neither the level of the line nor the pending
\* level, and a complete one-line IF statement gets no header flag and leaves
\* the level as it was.
C21_ElseAfterOpenerOnLine ==
    /\ [][(/\ styler.setup.foldAtElse
           /\ AtKeyword(kw.else) \/ AtKeyword(kw.elsif)
           /\ OpenerEarlierOnLine)
             => /\ fold'.levelCurrent = fold.levelCurrent
                /\ fold'.levelNext = fold.levelNext]_vars
    /\ []((styler.setup.foldAtElse /\ OneLineIfFolded)
             => /\ ~IsHeader(LastLineWord)
                /\ NextLevelOf(LastLineWord) = LevelOf(LastLineWord)
                /\ LevelOf(LastLineWord) =
                      IF styler.text \in {IfElseLine, IfElsifLine}
                      THEN SC_FOLDLEVELBASE ELSE SC_FOLDLEVELBASE + 1)

\* the one-line IF statement with an ELSE has been folded inside a block with
\* fold.sql.at.else = 1 and the other properties at their defaults
C21_Witness ==
    /\ WholeFolded
    /\ styler.text = BeginLine \o IfElseLine
    /\ styler.setup.foldAtElse
    /\ ~styler.setup.foldOnlyBegin
    /\ IsHeader(styler.levels[0])
    /\ ~IsHeader(LastLineWord)
    /\ LevelOf(LastLineWord) = SC_FOLDLEVELBASE + 1

\* the next step of the Fold call reads the end of a line or a ';' outside
\* comments
AtStatementEnd ==
    /\ pc = "fold"
    /\ fold.i < fold.endPos
    /\ \/ CharOf(styler, fold.i) = ch.lf
       \/ /\ CharOf(styler, fold.i) = ch.cr
          /\ SafeGetCharAt(styler.text, fold.i + 1, ch.space) # ch.lf
       \/ /\ CharOf(styler, fold.i) = ch.semicolon
          /\ ~IsCommentStyle(StyleAt(styler.styles, fold.i))

\* the step of EXCEPTION outside a declare header sets IN_EXCEPTION
ExceptionSets ==
    (AtKeyword(kw.exception) /\ ~IsIntoDeclareBlock(fold.sqlStatesCurrentLine))
       => IsIntoExceptionBlock(fold'.sqlStatesCurrentLine)

\* the step of WHEN while IN_EXCEPTION is set leaves the condition flag and
\* both levels as they were
WhenInExceptionIdle ==
    (AtKeyword(kw.when) /\ IsIntoExceptionBlock(fold.sqlStatesCurrentLine))
       => /\ IsIntoCondition(fold'.sqlStatesCurrentLine)
                <=> IsIntoCondition(fold.sqlStatesCurrentLine)
          /\ fold'.levelCurrent = fold.levelCurrent
          /\ fold'.levelNext = fold.levelNext

\* a step of the call clears IN_EXCEPTION exactly when it reads the end of a
\* line or a ';' while an END is pending
ExceptionClearedAtEnd ==
    (/\ pc = "fold"
     /\ fold.i < fold.endPos
     /\ IsIntoExceptionBlock(fold.sqlStatesCurrentLine))
       => (~IsIntoExceptionBlock(fold'.sqlStatesCurrentLine)
              <=> (AtStatementEnd /\ fold.endFound))

\* C22 (as stated): EXCEPTION outside a declare header sets IN_EXCEPTION;
\* while it is set WHEN neither enters a condition nor changes a level; and
\* it is cleared at the first ';' or end of line reached while an END is
\* pending, and not before.
C22_ExceptionBlock ==
    [][ExceptionSets /\ WhenInExceptionIdle /\ ExceptionClearedAtEnd]_vars

\* C22 (amended): the same with fold.sql.only.begin = 0.
C22_ExceptionBlockFolded ==
    [][~styler.setup.foldOnlyBegin
          => (ExceptionSets /\ WhenInExceptionIdle /\ ExceptionClearedAtEnd)]_vars

\* the block with a CASE statement in its exception handler has been folded
\* to its last ';': the WHEN line of the CASE opened no fold, the "end case;"
\* left IN_EXCEPTION set and the ';' of the last END has cleared it
C22_Witness ==
    /\ styler.text = ExceptionBlock
    /\ ~styler.setup.foldOnlyBegin
    /\ pc = "fold"
    /\ LastCall.length = Len(styler.text)
    /\ fold.i = Len(styler.text)
    /\ ~IsIntoExceptionBlock(fold.sqlStatesCurrentLine)
    /\ Len(fold.sqlStatement) = 8
    /\ IsIntoExceptionBlock(fold.sqlStatement[7])
    /\ IsHeader(styler.levels[3])
    /\ ~IsHeader(styler.levels[4])

\* the patterns compiled one character at a time
StepPatterns ==
    { <<ch.a, ch.star>>,
      <<ch.a, ch.plus>>,
      <<ch.a, ch.quest>>,
      <<ch.dot, ch.quest>>,
      <<ch.lbracket, ch.a, ch.b, ch.rbracket, ch.quest>>,
      <<ch.bslash, ch.d, ch.quest>>,
      <<ch.a, ch.star, ch.quest, ch.b>>,
      <<ch.lbracket, ch.a, ch.rbracket>>,
      <<ch.a, ch.b>>,
      <<ch.a, ch.quest, ch.star>>,
      <<ch.a, ch.quest, ch.quest>>,
      <<ch.a, ch.quest, ch.plus>>,
      <<ch.bslash, ch.h, ch.star>>,
      <<ch.bslash, ch.i, ch.plus>>,
      <<ch.bslash, ch.lparen, ch.a, ch.bslash, ch.rparen, ch.bslash, ch.d1>>,
      <<ch.bslash, ch.lparen, ch.a, ch.bslash, ch.d1, ch.bslash, ch.rparen>>,
      <<ch.bslash, ch.lparen, ch.a, ch.bslash, ch.lparen, ch.b, ch.bslash, ch.d1, ch.bslash, ch.rparen, ch.bslash, ch.rparen>>,
      <<ch.bslash, ch.lparen, ch.a, ch.bslash, ch.rparen, ch.bslash, ch.lparen, ch.b, ch.bslash, ch.d2, ch.bslash, ch.rparen>>,
      <<ch.bslash, ch.lparen, ch.bslash, ch.lparen, ch.a, ch.bslash, ch.rparen, ch.bslash, ch.d1, ch.bslash, ch.rparen>>,
      <<ch.bslash, ch.lparen, ch.bslash, ch.lparen, ch.a, ch.bslash, ch.rparen, ch.bslash, ch.d2, ch.bslash, ch.rparen>>,
      <<ch.bslash, ch.d1>>,
      <<ch.bslash, ch.lparen, ch.a, ch.bslash, ch.rparen, ch.bslash, ch.d2>>,
      <<ch.bslash, ch.lparen, ch.a, ch.bslash, ch.rparen, ch.bslash, ch.lparen, ch.b, ch.bslash, ch.rparen>>,
      <<ch.bslash, ch.lparen, ch.bslash, ch.lparen, ch.a, ch.bslash, ch.rparen, ch.b, ch.bslash, ch.rparen>>,
      <<ch.bslash, ch.lparen, ch.a>>,
      <<ch.a, ch.bslash, ch.rparen>>,
      <<ch.bslash, ch.lparen, ch.bslash, ch.rparen>>,
      <<ch.bslash, ch.lparen, ch.a, ch.bslash, ch.lparen, ch.bslash, ch.rparen, ch.bslash, ch.rparen>>,
      <<ch.lbracket, ch.b>>,
      <<ch.bslash, ch.lparen, ch.a, ch.bslash, ch.rparen, ch.star>>,
      <<ch.lbracket, ch.minus, ch.rbracket, ch.bar, ch.rbracket>>,
      <<ch.lbracket, ch.rbracket, ch.minus, ch.bar, ch.rbracket>>,
      <<ch.lbracket, ch.caret, ch.minus, ch.rbracket, ch.rbracket>>,
      <<ch.lbracket, ch.a, ch.minus, ch.rbracket>>,
      <<ch.lbracket, ch.bslash, ch.d, ch.minus, ch.a, ch.rbracket>>,
      <<ch.lbracket, ch.a, ch.minus, ch.bslash, ch.d, ch.rbracket>>,
      <<ch.lbracket, ch.b, ch.minus, ch.d, ch.rbracket>>,
      <<ch.lbracket, ch.caret, ch.rbracket, ch.a, ch.rbracket>>,
      <<ch.bslash, ch.i, ch.a, ch.star, ch.b>>,
      <<ch.a, ch.bslash, ch.h>>,
      <<ch.a, ch.star, ch.bslash, ch.H>>,
      <<ch.dot, ch.star, ch.bslash, ch.i>>,
      <<ch.bslash, ch.h, ch.a>>,
      <<ch.dot, ch.star, ch.bslash, ch.h, ch.a>> }

StepPatternsPosix ==
    { <<ch.lparen, ch.a, ch.rparen, ch.lparen, ch.b, ch.rparen>>,
      <<ch.lparen, ch.lparen, ch.a, ch.rparen, ch.b, ch.rparen>>,
      <<ch.lparen, ch.a>>,
      <<ch.a, ch.rparen>>,
      <<ch.lparen, ch.rparen>>,
      <<ch.lparen, ch.a, ch.rparen, ch.bslash, ch.d1>>,
      <<ch.lparen, ch.a, ch.lparen, ch.b, ch.bslash, ch.d1, ch.rparen, ch.rparen>>,
      <<ch.lparen, ch.a, ch.bslash, ch.d1, ch.rparen>> }

StepPatternsNoCase ==
    { <<ch.a, ch.quest>>,
      <<ch.a, ch.b>>,
      <<ch.lbracket, ch.a, ch.minus, ch.b, ch.rbracket>>,
      <<ch.lbracket, ch.caret, ch.A, ch.rbracket, ch.b>>,
      <<ch.A, ch.star, ch.b>>,
      <<ch.bslash, ch.lparen, ch.a, ch.bslash, ch.rparen, ch.bslash, ch.d1>>,
      <<ch.bslash, ch.A, ch.b>>,
      <<ch.lbracket, ch.bslash, ch.A, ch.rbracket>>,
      <<ch.a, ch.bslash, ch.H>> }


(***************************************************************************)
(* The compiler specification: RESearch::Compile followed one pattern      *)
(* character at a time.  CompileBegin is the call up to the for loop of    *)
(* DoCompile, CompileStep one iteration of the loop, CompileDone the code  *)
(* after the loop and the return to Compile.  The locals of DoCompile are  *)
(* comp.c; they stay in comp after the call as history, with mp counting   *)
(* the bytes written from nfa[0] on.  A second Compile call follows a      *)
(* failed one, and Execute follows a first successful one.                 *)
(***************************************************************************)
MaxCompiles == 2

\* the longest pattern of a second Compile call
MaxRetryLen == 16

\* the number of ? after the first atom of LongClosure
StackedClosures == 511

\* the number of sets of ManySetsPattern
ManySets == 61

\* a, StackedClosures times ?, then +
LongClosure ==
    <<ch.a>> \o [k \in 1..StackedClosures |-> ch.quest] \o <<ch.plus>>

\* [a] ManySets times, then a
ManySetsPattern ==
    [k \in 1..(3 * ManySets + 1) |->
        IF k = 3 * ManySets + 1 THEN ch.a
        ELSE <<ch.lbracket, ch.a, ch.rbracket>>[((k - 1) % 3) + 1]]

\* \(a\) n times
Groups(n) ==
    [k \in 1..(5 * n) |->
        <<ch.bslash, ch.lparen, ch.a, ch.bslash, ch.rparen>>[((k - 1) % 5) + 1]]

\* (a) n times
GroupsPosix(n) ==
    [k \in 1..(3 * n) |-> <<ch.lparen, ch.a, ch.rparen>>[((k - 1) % 3) + 1]]

StepInputs ==
    { CIn("p1", p, TRUE, FindOptionNone) :
         p \in StepPatterns \cup {LongClosure, ManySetsPattern,
                                  Groups(MAXTAG - 1), Groups(MAXTAG)} }
    \cup { CIn("p1", p, TRUE, FindOptionPosix) :
              p \in StepPatternsPosix \cup {GroupsPosix(MAXTAG - 1),
                                            GroupsPosix(MAXTAG)} }
    \cup { CIn("p1", p, FALSE, FindOptionNone) : p \in StepPatternsNoCase }

\* the documents Execute is called on after a stepwise Compile
StepDocs ==
    UNION {[1..n -> {ch.a, ch.b, ch.d1}] \cup [1..n -> {ch.a, ch.space}] :
              n \in 0..MaxDocLen}
    \cup {<<ch.minus>>, <<ch.rbracket>>, <<ch.bar>>, <<ch.caret>>}

\* Compile up to the for loop of DoCompile
CompileBegin(ptr, pattern, caseSensitive, flags) ==
    /\ ~comp.active
    /\ comp.calls < MaxCompiles
    /\ \/ call.op = "new"
       \/ call.op = "Compile" /\ call.err # nullptr /\ Len(pattern) <= MaxRetryLen
    /\ ptr # nullptr
    /\ Len(pattern) > 0
    /\ ~CacheHit(ptr, pattern, Len(pattern), flags)
    /\ sta' = NOP
    /\ comp' = [active |-> TRUE, calls |-> comp.calls + 1, ptr |-> ptr,
                pattern |-> pattern, caseSensitive |-> caseSensitive,
                flags |-> flags,
                c |-> Locals([nfa |-> nfa, bittab |-> bittab, tagstk |-> tagstk])]
    /\ call' = [NoCall EXCEPT !.op = "Compiling", !.ptr = ptr,
                              !.pattern = pattern,
                              !.caseSensitive = caseSensitive, !.flags = flags]
    /\ UNCHANGED <<nfa, bittab, tagstk, bol, failure, bopat, eopat,
                   previousPattern, previousLength, previousFlags,
                   cachedPattern, hist>>
    /\ UNCHANGED sqlVars

\* one iteration of the for loop of DoCompile
CompileStep ==
    /\ comp.active
    /\ comp.c.err = nullptr
    /\ comp.c.i < Len(comp.pattern)
    /\ \E r \in {IF comp.c.mp > MAXNFA - BITBLK - 10
                 THEN Bad(comp.c, "Pattern too long")
                 ELSE CompileChar(comp.c, comp.pattern, comp.caseSensitive,
                                  comp.flags = FindOptionPosix)} :
          comp' = [comp EXCEPT !.c = IF r.err # nullptr THEN r
                                     ELSE [r EXCEPT !.i = @ + 1]]
    /\ UNCHANGED <<nfa, bittab, tagstk, sta, bol, failure, bopat, eopat,
                   previousPattern, previousLength, previousFlags,
                   cachedPattern, call, hist>>
    /\ UNCHANGED sqlVars

\* the code after the for loop of DoCompile, and the return to Compile
CompileDone ==
    /\ comp.active
    /\ comp.c.err # nullptr \/ comp.c.i >= Len(comp.pattern)
    /\ \E fin \in {IF comp.c.err # nullptr THEN comp.c
                   ELSE IF comp.c.tagi > 0
                   THEN Bad(comp.c, IF comp.flags = FindOptionPosix
                                    THEN "Unmatched (" ELSE "Unmatched \\(")
                   ELSE Emit1(comp.c, END)} :
          /\ nfa' = fin.nfa
          /\ bittab' = fin.bittab
          /\ tagstk' = fin.tagstk
          /\ sta' = IF fin.err = nullptr THEN OKP ELSE sta
          /\ previousPattern' = IF fin.err = nullptr THEN comp.ptr
                                ELSE previousPattern
          /\ previousLength' = IF fin.err = nullptr THEN Len(comp.pattern)
                               ELSE previousLength
          /\ previousFlags' = IF fin.err = nullptr THEN comp.flags
                              ELSE previousFlags
          /\ cachedPattern' = IF fin.err = nullptr THEN comp.pattern
                              ELSE cachedPattern
          /\ comp' = [comp EXCEPT !.active = FALSE, !.c = fin]
          /\ call' = [call EXCEPT !.op = "Compile", !.err = fin.err,
                                  !.compiled = TRUE]
          /\ hist' = [lastc |-> [ptr |-> comp.ptr, pattern |-> comp.pattern,
                                 caseSensitive |-> comp.caseSensitive,
                                 flags |-> comp.flags, err |-> fin.err,
                                 cleared |-> FALSE, afterExec |-> FALSE],
                      valid |-> IF fin.err = nullptr THEN "ok" ELSE "error",
                      wasOk |-> (hist.wasOk \/ fin.err = nullptr)]
    /\ UNCHANGED <<bol, failure, bopat, eopat>>
    /\ UNCHANGED sqlVars

\* a write past nfa[MAXNFA - 1] is undefined: the call may go on as if the
\* byte had gone nowhere (the steps above), or the process may stop here
CompileCrash ==
    /\ comp.c.mp > MAXNFA
    /\ call.op \in {"Compiling", "Compile"}
    /\ call' = [call EXCEPT !.op = "Crash"]
    /\ comp' = [comp EXCEPT !.active = FALSE]
    /\ UNCHANGED <<nfa, bittab, tagstk, sta, bol, failure, bopat, eopat,
                   previousPattern, previousLength, previousFlags,
                   cachedPattern, hist>>
    /\ UNCHANGED sqlVars

\* Execute on the program of the first Compile call
StepExecute ==
    /\ ~comp.active
    /\ comp.calls = 1
    /\ call.op = "Compile"
    /\ call.err = nullptr
    /\ comp.c.mp <= MAXNFA
    /\ \E doc \in StepDocs :
          \E lp \in 0..Len(doc) : \E endp \in lp..Len(doc) :
             ExecuteCall(doc, lp, endp)

NextCompile ==
    \/ \E c \in StepInputs :
          CompileBegin(c.ptr, c.pattern, c.caseSensitive, c.flags)
    \/ CompileStep
    \/ CompileDone
    \/ CompileCrash
    \/ StepExecute

SpecCompile == Init /\ [][NextCompile]_vars

\* the stepwise Compile leaves what DoCompile computes in one piece
StepwiseIsDoCompile ==
    (call.op = "Compile" /\ comp.calls = 1 /\ Len(comp.pattern) <= 5 * MAXTAG)
    => \E r \in {DoCompile(NoComp.c @@ [sta |-> NOP], comp.ptr, comp.pattern,
                           Len(comp.pattern), comp.caseSensitive,
                           comp.flags = FindOptionPosix)} :
          /\ r.err = call.err
          /\ r.eng.nfa = nfa
          /\ r.eng.bittab = bittab
          /\ r.eng.tagstk = tagstk
          /\ r.eng.sta = sta

(***************************************************************************)
(* Properties of the compiler specification.                               *)
(***************************************************************************)
\* the last Compile call returned nullptr
Accepted == ~comp.active /\ call.op = "Compile" /\ call.err = nullptr

\* the opcodes a closure iterates
Atoms == {CHR, ANY, CCL}

Closures == {CLO, LCLO, CLQ}

\* the bytes an opcode takes in the program
OpSize(op) ==
    CASE op \in {CHR, BOT, EOT, REF} -> 2
      [] op = CCL -> 1 + BITBLK
      [] OTHER -> 1

RECURSIVE ClosuresWellFormed(_, _)
\* from ap to the END of the program buf, every closure opcode is followed by
\* one atom and an END
ClosuresWellFormed(buf, ap) ==
    IF ap >= MAXNFA \/ buf[ap] = END THEN TRUE
    ELSE IF buf[ap] \in Closures
    THEN /\ buf[ap + 1] \in Atoms
         /\ buf[ap + 1 + OpSize(buf[ap + 1])] = END
         /\ ClosuresWellFormed(buf, ap + 2 + OpSize(buf[ap + 1]))
    ELSE ClosuresWellFormed(buf, ap + OpSize(buf[ap]))

\* C23: every accepted pattern leaves a program in which each closure opcode
\* (CLO, LCLO, CLQ) is followed by exactly one CHR, ANY or CCL atom and then
\* END, and Execute on a compiled program never sets the failure flag.
C23_ClosuresOverAtoms ==
    /\ Accepted => ClosuresWellFormed(nfa, 0)
    /\ call.op = "Execute" => failure = 0

\* a?* is accepted, and Execute on its program sets the failure flag
StackedClosureFails ==
    /\ call.op = "Execute"
    /\ comp.pattern = <<ch.a, ch.quest, ch.star>>
    /\ call.doc = <<ch.a>>
    /\ failure = 1
    /\ call.ret = 0

\* C24: Compile never writes outside the buffer of MAXNFA bytes: the bytes
\* written from nfa[0] on, the final END included, number at most MAXNFA,
\* during the call and when it returns, whatever the pattern (stacked closure
\* characters duplicated by + included).
C24_ProgramFitsBuffer == comp.c.mp <= MAXNFA

\* the pattern of ManySets sets is refused before the buffer is full
TooLongRefused ==
    /\ call.op = "Compile"
    /\ comp.pattern = ManySetsPattern
    /\ call.err = "Pattern too long"
    /\ comp.c.mp <= MAXNFA

\* LongClosure is accepted after writes past the end of the buffer
LongClosureAccepted ==
    /\ Accepted
    /\ comp.pattern = LongClosure
    /\ comp.c.mp = 4 * StackedClosures + 7

\* what DoCompile makes of the arguments of the last stepwise Compile call on
\* an engine as constructed
FreshCompile ==
    DoCompile(NoComp.c @@ [sta |-> NOP], comp.ptr, comp.pattern,
              Len(comp.pattern), comp.caseSensitive,
              comp.flags = FindOptionPosix)

\* the first n bytes of two program buffers agree
SameProgram(buf1, buf2, n) == \A k \in 0..(n - 1) : buf1[k] = buf2[k]

\* C25: Compile is a function of its arguments: a Compile call that follows a
\* failed one returns what it returns on a new engine and, when it succeeds,
\* leaves exactly the program a new engine gets.
C25_CompileIgnoresHistory ==
    (~comp.active /\ call.op = "Compile" /\ comp.calls > 1)
    => \E r \in {FreshCompile} :
          /\ r.err = call.err
          /\ call.err = nullptr => SameProgram(nfa, r.eng.nfa, comp.c.mp)

(***************************************************************************)
(* Further properties of the protocol specification.                       *)
(***************************************************************************)
\* the engine members DoCompile works on
Engine == [nfa |-> nfa, bittab |-> bittab, tagstk |-> tagstk, sta |-> sta]

\* the call being made runs the compiler on its arguments
CompileRuns ==
    /\ call'.compiled
    /\ nfa' = DoCompile(Engine, call'.ptr, call'.pattern, Len(call'.pattern),
                        call'.caseSensitive,
                        call'.flags = FindOptionPosix).eng.nfa

\* C26: after a successful Compile, a Compile call that repeats the pattern,
\* length and flags with another caseSensitive value is not answered from
\* the cache: the compiler runs, and the engine holds the program of the new
\* arguments.
C26_CaseChangeRecompiles ==
    [][(LastCompileSucceeded /\ RepeatsLastCompile
          /\ call'.pattern # <<>>
          /\ call'.caseSensitive # hist.lastc.caseSensitive) => CompileRuns]_vars

\* Execute after Compile("a", case-insensitive) does not find A
CaseChangeIgnored ==
    /\ call.op = "Execute"
    /\ LastCompileSucceeded
    /\ hist.lastc.pattern = <<ch.a>>
    /\ ~hist.lastc.caseSensitive
    /\ call.doc = <<ch.b, ch.A, ch.b>>
    /\ call.ret = 0

\* the closure steps of opcode op on the path of the match Execute returned
ClosureSteps(op) ==
    {k \in 1..Len(call.g.log) : call.g.log[k].op = op}

\* C27: on the match Execute returns, a ? closure (CLQ) has consumed at most
\* one character, whatever its atom (CHR, ANY, or CCL from a set, from a
\* class escape or from a letter compiled without case).
C27_OptionalTakesAtMostOne ==
    (call.op = "Execute" /\ call.ret = 1)
    => \A k \in ClosureSteps(CLQ) :
          call.g.log[k].llp - call.g.log[k].are <= 1

\* [ab]? on "ab" matches both characters
OptionalSetTakesTwo ==
    /\ call.op = "Execute"
    /\ comp.pattern = <<ch.lbracket, ch.a, ch.b, ch.rbracket, ch.quest>>
    /\ call.doc = <<ch.a, ch.b>>
    /\ call.ret = 1
    /\ bopat[0] = 0
    /\ eopat[0] = 2

\* the compiler is at the pattern character c1 followed by c2 and takes a step
StepsAt(c1) ==
    /\ comp.active
    /\ comp.c.err = nullptr
    /\ comp.c.i < Len(comp.pattern)
    /\ comp.c.mp <= MAXNFA - BITBLK - 10
    /\ P(comp.pattern, comp.c.i) = c1
    /\ comp'.active
    /\ comp' # comp

\* the digit of the back-reference the compiler is at
RefDigit == P(comp.pattern, comp.c.i + 1) - ch.d0

AtBackReference == StepsAt(ch.bslash) /\ RefDigit \in 1..(MAXTAG - 1)

\* the groups opened and not yet closed
OpenGroups == {comp.c.tagstk[k] : k \in 1..comp.c.tagi}

\* C28: a back-reference \n is rejected with "Cyclical reference" when group
\* n is open, at every nesting depth, and with "Undetermined reference" when
\* group n has not been opened.
C28_BackReferenceChecked ==
    [][AtBackReference
         => /\ RefDigit \in OpenGroups => comp'.c.err = "Cyclical reference"
            /\ RefDigit >= comp.c.tagc
                  => comp'.c.err = "Undetermined reference"]_vars

\* \(a\(b\1\)\) is accepted
NestedCycleAccepted ==
    /\ Accepted
    /\ comp.pattern = <<ch.bslash, ch.lparen, ch.a, ch.bslash, ch.lparen, ch.b,
                        ch.bslash, ch.d1, ch.bslash, ch.rparen, ch.bslash,
                        ch.rparen>>

\* the longest program whose opcodes the properties below walk through
MaxProgram == 64

RECURSIVE TagOps(_, _, _)
\* the BOT, EOT and REF opcodes of the n bytes of program buf from ap on, in
\* order, with their operands
TagOps(buf, ap, n) ==
    IF ap >= n THEN <<>>
    ELSE (IF buf[ap] \in {BOT, EOT, REF}
          THEN <<[op |-> buf[ap], n |-> buf[ap + 1]]>>
          ELSE <<>>) \o TagOps(buf, ap + OpSize(buf[ap]), n)

IsBOT(t) == t.op = BOT

RECURSIVE Nested(_, _, _)
\* from the k-th of the opcodes ops on, with the groups of open being open:
\* every EOT closes the group opened last, and no group stays open
Nested(ops, k, open) ==
    IF k > Len(ops) THEN open = <<>>
    ELSE IF ops[k].op = BOT THEN Nested(ops, k + 1, Append(open, ops[k].n))
    ELSE IF ops[k].op = EOT
    THEN /\ open # <<>>
         /\ open[Len(open)] = ops[k].n
         /\ Nested(ops, k + 1, SubSeq(open, 1, Len(open) - 1))
    ELSE Nested(ops, k + 1, open)

GroupsWellFormed(ops) ==
    /\ \A k \in 1..Len(ops) : ops[k].n \in 1..(MAXTAG - 1)
    /\ \A k \in 1..Len(SelectSeq(ops, IsBOT)) : SelectSeq(ops, IsBOT)[k].n = k
    /\ Nested(ops, 1, <<>>)

\* the compiler is at an opening or at a closing bracket of the grouping mode
AtBracket(bracket) ==
    IF comp.flags = FindOptionPosix THEN StepsAt(bracket)
    ELSE StepsAt(ch.bslash) /\ P(comp.pattern, comp.c.i + 1) = bracket

\* the bracket the compiler is at follows an opening bracket directly
AfterOpening ==
    IF comp.flags = FindOptionPosix
    THEN P(comp.pattern, comp.c.i - 1) = ch.lparen
    ELSE /\ P(comp.pattern, comp.c.i - 1) = ch.lparen
         /\ P(comp.pattern, comp.c.i - 2) = ch.bslash

\* C29: in every accepted program the operands of BOT, EOT and REF lie in
\* 1..9, the groups are numbered 1, 2, ... in order of opening and every
\* BOT n has its EOT n, properly nested; a tenth group, a closing bracket
\* without an open group, an empty group and a group left open are rejected,
\* in POSIX and in non-POSIX mode.
C29_GroupsWellFormed ==
    /\ []((Accepted /\ comp.c.mp <= MaxProgram)
            => GroupsWellFormed(TagOps(nfa, 0, comp.c.mp - 1)))
    /\ [][/\ (AtBracket(ch.lparen) /\ comp.c.tagc >= MAXTAG)
                => comp'.c.err # nullptr
          /\ (AtBracket(ch.rparen) /\ (comp.c.tagi = 0 \/ AfterOpening))
                => comp'.c.err # nullptr
          /\ (comp.active /\ ~comp'.active /\ call'.op = "Compile"
                /\ comp.c.tagi > 0)
                => call'.err # nullptr]_vars

\* an accepted pattern with a group inside a group and a back-reference
C29_Witness ==
    /\ Accepted
    /\ comp.flags = FindOptionNone
    /\ TagOps(nfa, 0, comp.c.mp - 1)
          = <<[op |-> BOT, n |-> 1], [op |-> BOT, n |-> 2],
              [op |-> EOT, n |-> 2], [op |-> REF, n |-> 2],
              [op |-> EOT, n |-> 1]>>

\* nine groups are accepted in POSIX mode
NineGroupsAccepted ==
    /\ Accepted
    /\ comp.flags = FindOptionPosix
    /\ comp.pattern = GroupsPosix(MAXTAG - 1)
    /\ Len(TagOps(nfa, 0, comp.c.mp - 1)) = 2 * (MAXTAG - 1)

\* a tenth group is rejected
TenthGroupRejected ==
    /\ call.op = "Compile"
    /\ comp.pattern = Groups(MAXTAG)
    /\ call.err = "Too many \\(\\) pairs"

(***************************************************************************)
(* Further properties of the matching specification.                       *)
(***************************************************************************)
\* C30: a match Execute reports lies in the range it was given:
\* lp <= bopat[0] <= eopat[0] <= endp, so that no opcode on the path of the
\* match has consumed a character at or beyond endp, whatever the document
\* holds there.
C30_MatchInsideRange ==
    (call.op = "Execute" /\ call.ret = 1)
    => /\ call.lp <= bopat[0]
       /\ bopat[0] <= eopat[0]
       /\ eopat[0] <= call.endp

\* ab on "ab" with endp = 1 matches [0,2)
LiteralPastEnd ==
    /\ call.op = "Execute"
    /\ hist.lastc.pattern = <<ch.a, ch.b>>
    /\ call.doc = <<ch.a, ch.b>>
    /\ call.lp = 0
    /\ call.endp = 1
    /\ call.ret = 1
    /\ bopat[0] = 0
    /\ eopat[0] = 2

\* C31: Execute terminates: after a failed attempt the scan of Execute moves
\* on by a hint of at least 1, so the positions it tries increase strictly,
\* and after a failed tail attempt a closure loop steps back by a hint of at
\* most -1; no loop takes a step that leaves its position where it was.
C31_LoopsMoveOn ==
    call.op = "Execute"
    => /\ ~call.stuck
       /\ \A k \in 1..(Len(call.tried) - 1) : call.tried[k] < call.tried[k + 1]
       /\ \A q \in call.qoffs : q <= -1

\* an Execute call whose scan moved on by more than one position on the hint
\* of a word opcode, and in which a closure loop stepped back
C31_Witness ==
    /\ call.op = "Execute"
    /\ call.qoffs # {}
    /\ \E k \in 1..(Len(call.tried) - 1) : call.tried[k + 1] > call.tried[k] + 1

Chars == 0..(MAXCHR - 1)

\* the sets of the documentation and of the dash rules, with their members
SetExamples ==
    { [pattern |-> <<ch.lbracket, ch.minus, ch.rbracket, ch.bar, ch.rbracket>>,
       members |-> {ch.minus, ch.rbracket, ch.bar}],
      [pattern |-> <<ch.lbracket, ch.rbracket, ch.minus, ch.bar, ch.rbracket>>,
       members |-> ch.rbracket..ch.bar],
      [pattern |-> <<ch.lbracket, ch.caret, ch.minus, ch.rbracket, ch.rbracket>>,
       members |-> Chars \ {ch.minus, ch.rbracket}],
      [pattern |-> <<ch.lbracket, ch.caret, ch.rbracket, ch.a, ch.rbracket>>,
       members |-> Chars \ {ch.rbracket, ch.a}],
      [pattern |-> <<ch.lbracket, ch.a, ch.minus, ch.rbracket>>,
       members |-> {ch.a, ch.minus}],
      [pattern |-> <<ch.lbracket, ch.bslash, ch.d, ch.minus, ch.a, ch.rbracket>>,
       members |-> (ch.d0..ch.d9) \cup {ch.minus, ch.a}],
      [pattern |-> <<ch.lbracket, ch.a, ch.minus, ch.bslash, ch.d, ch.rbracket>>,
       members |-> (ch.d0..ch.d9) \cup {ch.minus, ch.a}],
      [pattern |-> <<ch.lbracket, ch.b, ch.minus, ch.d, ch.rbracket>>,
       members |-> ch.b..ch.d] }

\* the first Compile call was of the set ex and has returned
SetCompiled(ex) ==
    /\ comp.calls = 1
    /\ ~comp.active
    /\ comp.pattern = ex.pattern
    /\ comp.caseSensitive

\* C32: a - or ] that comes first in a set (after an optional ^) is a member,
\* a dash that is last or next to a class escape is a member, and S-E adds
\* the characters S..E: [-]|] is the set of - ] |, []-|] the set of the
\* characters from ] to |, [^-]] the set of every character but - and ];
\* Execute on a text of one character matches it exactly when it is a member.
C32_SetSyntax ==
    \A ex \in SetExamples :
       SetCompiled(ex)
       => /\ call.op = "Compile" => call.err = nullptr
          /\ nfa[0] = CCL
          /\ nfa[1 + BITBLK] = END
          /\ \A c \in Chars : isinset(nfa, 1, c) <=> c \in ex.members
          /\ (call.op = "Execute" /\ call.lp = 0 /\ call.endp = 1)
             => IF call.doc[1] \in ex.members THEN Matched(0, 1)
                ELSE call.ret = 0

\* Execute has matched the | of the text "|" with the set []-|]
C32_Witness ==
    /\ \E ex \in SetExamples :
          /\ SetCompiled(ex)
          /\ ex.pattern[2] = ch.rbracket
    /\ call.op = "Execute"
    /\ call.doc = <<ch.bar>>
    /\ Matched(0, 1)

\* the other case of an ASCII letter, any other character itself
Mirror(c) ==
    IF c >= ch.a /\ c <= ch.z THEN c - ch.a + ch.A
    ELSE IF c >= ch.A /\ c <= ch.Z THEN c - ch.A + ch.a
    ELSE c

\* the texts that differ from doc in the case of letters only
CaseVariants(doc) ==
    {d \in [1..Len(doc) -> {c \in Chars : \E k \in 1..Len(doc) :
                                              c \in {doc[k], Mirror(doc[k])}}] :
        \A k \in 1..Len(doc) : d[k] \in {doc[k], Mirror(doc[k])}}

\* a backslash stands before a letter of the pattern
EscapedLetter(pattern) ==
    \E k \in 1..(Len(pattern) - 1) :
       /\ pattern[k] = ch.bslash
       /\ Mirror(pattern[k + 1]) # pattern[k + 1]

\* Execute on the text d gives what the last Execute call gave
SameOutcome(d) ==
    \E r \in {Execute(d, call.lp, call.endp)} :
       /\ r.ret = call.ret
       /\ r.t.bopat = bopat
       /\ r.t.eopat = eopat

\* the first Compile call was made without case and Execute has followed
ExecutedNoCase ==
    /\ call.op = "Execute"
    /\ comp.calls = 1
    /\ ~comp.caseSensitive

\* the offset of the first atom of the program: after a closure opcode
FirstAtom == IF nfa[0] \in {CLO, LCLO, CLQ} THEN 1 ELSE 0

\* the program holds no REF instruction
NoReference ==
    \A k \in 0..(comp.c.mp - 2) : nfa[k] # REF \/ nfa[k + 1] \notin 1..(MAXTAG - 1)

\* C33 (as stated): with caseSensitive = false and no escaped letter in the
\* pattern, Execute returns the same value and the same tags on every text
\* that differs from the given one only in the case of its letters.
C33_TextCaseIgnored ==
    (ExecutedNoCase /\ ~EscapedLetter(comp.pattern))
    => \A d \in CaseVariants(call.doc) : SameOutcome(d)

\* C33 (amended): with caseSensitive = false, no escaped letter and no
\* back-reference in the pattern, Execute returns the same value and the
\* same tags on every text that differs from the given one only in the case
\* of its letters; a pattern that starts with an unescaped letter starts
\* with a CCL of the letter and its mirror, one that starts with an escaped
\* letter that stands for itself starts with a CHR of that letter.
C33_TextCaseIgnoredNoRef ==
    ExecutedNoCase
    => /\ (~EscapedLetter(comp.pattern) /\ NoReference)
          => \A d \in CaseVariants(call.doc) : SameOutcome(d)
       /\ Mirror(comp.pattern[1]) # comp.pattern[1]
          => /\ nfa[FirstAtom] = CCL
             /\ \A c \in Chars :
                   isinset(nfa, FirstAtom + 1, c)
                   <=> c \in {comp.pattern[1], Mirror(comp.pattern[1])}
       /\ (comp.pattern[1] = ch.bslash /\ comp.pattern[2] = ch.A)
          => nfa[0] = CHR /\ nfa[1] = ch.A

\* A*b compiled without case has matched "ab"
C33_Witness ==
    /\ ExecutedNoCase
    /\ comp.pattern = <<ch.A, ch.star, ch.b>>
    /\ call.doc = <<ch.a, ch.b>>
    /\ Matched(0, 2)
    /\ NoReference

\* \(a\)\1 compiled without case matches "aa" but not "aA"
ReferenceKeepsCase ==
    /\ ExecutedNoCase
    /\ comp.pattern = <<ch.bslash, ch.lparen, ch.a, ch.bslash, ch.rparen,
                        ch.bslash, ch.d1>>
    /\ call.doc = <<ch.a, ch.a>>
    /\ Matched(0, 2)
    /\ Execute(<<ch.a, ch.A>>, 0, 2).ret = 0
\* the texts of the token specification
TokenTexts ==
    { <<ch.d1, ch.dot, ch.d2, ch.dot, ch.d3>>,
      <<ch.d1, ch.dot, ch.dot, ch.d2>>,
      <<ch.d1, ch.dot, ch.e, ch.d2>>,
      <<ch.d1, ch.e, ch.e>>,
      <<ch.d1, ch.e, ch.plus, ch.d2>>,
      <<ch.d1, ch.E, ch.minus, ch.d2>>,
      <<ch.d1, ch.plus, ch.d2>>,
      <<ch.d1, ch.e, ch.d2, ch.plus>>,
      <<ch.d1, ch.d2, ch.a>>,
      <<ch.dot, ch.d2, ch.dot>>,
      <<ch.d1, ch.space, ch.d2>>,
      <<ch.d1, ch.e, ch.plus, ch.e>>,
      <<ch.d1, ch.dot, ch.d2, ch.e, ch.plus, ch.d3, ch.space>>,
      <<ch.dquote, ch.a, ch.bslash, ch.dquote, ch.b, ch.dquote>>,
      <<ch.dquote, ch.a, ch.dquote, ch.dquote, ch.b, ch.dquote, ch.space, ch.c>>,
      <<ch.dquote, ch.bslash, ch.bslash, ch.dquote, ch.space, ch.a>>,
      <<ch.dquote, ch.a, ch.dquote, ch.b>>,
      <<ch.quote, ch.a, ch.bslash, ch.quote, ch.b, ch.quote>>,
      <<ch.quote, ch.a, ch.quote, ch.quote, ch.b, ch.quote, ch.space, ch.c>>,
      <<ch.x, ch.quote, ch.d1, ch.dquote, ch.a, ch.quote, ch.b>>,
      <<ch.x, ch.dquote, ch.d1, ch.quote, ch.a, ch.dquote, ch.b>>,
      <<ch.X, ch.quote, ch.d1, ch.quote, ch.a>>,
      <<ch.x, ch.dquote, ch.d1, ch.dquote, ch.a>>,
      <<ch.i, ch.f, ch.lparen>>,
      <<ch.i, ch.n, ch.t, ch.lparen>>,
      <<ch.f, ch.lparen>>,
      <<ch.f, ch.space, ch.lparen>>,
      <<ch.f>>,
      <<ch.f, ch.a, ch.lparen>>,
      <<ch.I, ch.F>>,
      <<ch.I, ch.n, ch.t, ch.space, ch.a>>,
      <<ch.F, ch.lf, ch.lparen>>,
      <<ch.t, ch.h, ch.e, ch.n>>,
      <<ch.a, ch.lparen>>,
      <<ch.f, ch.dot, ch.lparen>>,
      <<ch.i, ch.f, ch.semicolon>> }

(***************************************************************************)
(* The token specification: a document is opened with one of the texts     *)
(* above, under setups in which keyword list 2 and user list 1 repeat      *)
(* words of the lists before them, and lexed by one call over the whole    *)
(* text or over a prefix of it, one pass of the loop at a time.            *)
(***************************************************************************)
TokenSetup(backslash, dotted) ==
    [Setup(TRUE, TRUE, backslash, dotted) EXCEPT
        !.keywords2 = {<<ch.i, ch.n, ch.t>>, kw.if},
        !.kw_user1 = {<<(<<ch.f>>), (<<>>)>>, <<(<<ch.i>>), (<<ch.n, ch.t>>)>>,
                      <<(kw.if), (<<>>)>>}]

TokenSetups == {TokenSetup(b, d) : b \in BOOLEAN, d \in BOOLEAN}

InitToken ==
    /\ InitRE
    /\ \E text \in TokenTexts : \E setup \in TokenSetups : Idle(Document(text, setup))

TokenCall ==
    /\ trail.calls = <<>>
    /\ \E p \in 0..Len(styler.text) :
          ColouriseBegin(IF p = Len(styler.text) THEN "whole" ELSE "first",
                         0, p, SCE_SQL.DEFAULT)

NextToken == TokenCall \/ ColouriseStep \/ ColouriseDone

SpecToken == InitToken /\ [][NextToken]_vars

\* the loop of ColouriseSqlDoc is about to run a pass in the given state
AtPass(state_) == pc = "colourise" /\ More(sc) /\ sc.state = state_

\* the pass leaves the token open: same state, same segment
TokenContinues == sc'.state = sc.state /\ sc'.startSeg = sc.startSeg

\* the pass ends the token before the current character and goes on as a
\* pass in the DEFAULT state does
TokenEndsBefore ==
    sc' = Forward(styler.text,
                  Enter(styler.text, styler.setup, SetState(sc, SCE_SQL.DEFAULT)))

\* the characters of the open token read so far
TokenSoFar == {styler.text[k + 1] : k \in sc.startSeg..(sc.currentPos - 1)}

\* C34 (as stated): in NUMBER state the token continues on a digit, on a .
\* that is the only . of the token and not directly after a ., on e or E,
\* and on + or - directly after e or E; on any other character the token
\* ends before it and the lexer goes on from DEFAULT.
C34_NumberChars ==
    [][AtPass(SCE_SQL.NUMBER)
       => IF \/ IsADigit(sc.ch)
             \/ sc.ch = ch.dot /\ sc.chPrev # ch.dot /\ ch.dot \notin TokenSoFar
             \/ sc.ch \in {ch.e, ch.E}
             \/ sc.ch \in {ch.plus, ch.minus} /\ sc.chPrev \in {ch.e, ch.E}
          THEN TokenContinues
          ELSE TokenEndsBefore /\ ~TokenContinues]_vars

\* C34 (amended): in NUMBER state the token continues on a digit, on a . not
\* directly after a ., on e or E directly after a digit, and on + or -
\* directly after e or E; on any other character the token ends before it
\* and the lexer goes on from DEFAULT.
C34_NumberCharsByPrev ==
    [][AtPass(SCE_SQL.NUMBER)
       => IF \/ IsADigit(sc.ch)
             \/ sc.ch = ch.dot /\ sc.chPrev # ch.dot
             \/ sc.ch \in {ch.e, ch.E} /\ IsADigit(sc.chPrev)
             \/ sc.ch \in {ch.plus, ch.minus} /\ sc.chPrev \in {ch.e, ch.E}
          THEN TokenContinues
          ELSE TokenEndsBefore /\ ~TokenContinues]_vars

\* the number token 1.2. is open after the pass on its second .
C34_Witness ==
    /\ pc = "colourise"
    /\ sc.state = SCE_SQL.NUMBER
    /\ sc.startSeg = 0
    /\ sc.currentPos = 4
    /\ styler.text = <<ch.d1, ch.dot, ch.d2, ch.dot, ch.d3>>

\* the pass skips the character after the current one, the token staying open
SkipsNext == sc' = Forward(styler.text, Forward(styler.text, sc))

\* the pass ends the token after the current character and goes on there as
\* a pass in the DEFAULT state does
TokenEndsAfter ==
    sc' = Forward(styler.text,
                  Enter(styler.text, styler.setup,
                        ForwardSetState(styler.text, sc, SCE_SQL.DEFAULT)))

\* a pass in STRING state where a backslash escapes when escapes holds
StringPass(escapes) ==
    IF escapes /\ sc.ch = ch.bslash THEN SkipsNext
    ELSE IF sc.ch = ch.dquote
         THEN IF sc.chNext = ch.dquote THEN SkipsNext ELSE TokenEndsAfter
         ELSE sc' = Forward(styler.text, sc)

\* C35: inside a STRING token a backslash makes the lexer skip the character
\* after it exactly when lexer.sql.backslash.escapes is on; with the option
\* off the backslash is passed like any character, so a " after it closes
\* the string unless it is doubled; the first " of a doubled "" never closes.
C35_StringEscapes ==
    [][AtPass(SCE_SQL.STRING_) => StringPass(styler.setup.sqlBackslashEscapes)]_vars

\* the code escapes whatever the option says
StringAlwaysEscapes == [][AtPass(SCE_SQL.STRING_) => StringPass(TRUE)]_vars

\* with the option off, the " after the backslash of "a\"b" has not closed
\* the string
EscapedWithOptionOff ==
    /\ ~styler.setup.sqlBackslashEscapes
    /\ pc = "idle"
    /\ trail.log # <<>>
    /\ styler.text = <<ch.dquote, ch.a, ch.bslash, ch.dquote, ch.b, ch.dquote>>
    /\ \A k \in DOMAIN styler.styles : styler.styles[k] = SCE_SQL.STRING_

\* the quote that opened the HEX2 literal being read
OpeningQuote == styler.text[sc.startSeg + 2]

\* C36: a HEX2 literal ends only at the quote that opened it: a pass on that
\* quote ends the token after it, so that the quote is styled with the
\* literal, and a pass on any other character, the other quote included,
\* leaves the token open.
C36_HexEndsAtItsQuote ==
    [][AtPass(SCE_SQL.HEX2)
       => IF sc.ch = OpeningQuote THEN TokenEndsAfter
          ELSE sc' = Forward(styler.text, sc)]_vars

\* the code ends the literal at either quote
HexEndsAtAnyQuote ==
    [][AtPass(SCE_SQL.HEX2)
       => IF sc.ch \in {ch.quote, ch.dquote} THEN TokenEndsAfter
          ELSE sc' = Forward(styler.text, sc)]_vars

\* the " of x'1"a'b has ended the literal opened by x'
HexEndedAtOtherQuote ==
    /\ pc = "idle"
    /\ trail.log # <<>>
    /\ styler.text = <<ch.x, ch.quote, ch.d1, ch.dquote, ch.a, ch.quote, ch.b>>
    /\ \A k \in 0..3 : styler.styles[k] = SCE_SQL.HEX2
    /\ styler.styles[4] # SCE_SQL.HEX2

\* an IDENTIFIER token is about to close: in the loop at a character that is
\* not a word character, or at the end of the range
IdentifierCloses ==
    /\ pc = "colourise"
    /\ sc.state = SCE_SQL.IDENTIFIER
    /\ ~More(sc) \/ ~IsSqlWordChar(sc.ch, styler.setup.sqlAllowDottedWord)

\* the positions of the token that closes
ClosingToken == sc.startSeg..(sc.currentPos - 1)

\* the styles of the document after the step
StylesAfter == IF More(sc) THEN sc'.styles ELSE styler'.styles

\* the style the lists give the lower-case text s, with plain for a text of
\* no list
ListStyle(s, plain) ==
    IF s \in styler.setup.keywords1 THEN SCE_SQL.WORD
    ELSE IF s \in styler.setup.keywords2 THEN SCE_SQL.WORD2
    ELSE IF /\ LexGetNextChar(styler.text, sc.currentPos) = ch.lparen
            /\ InListAbbreviated(styler.setup.kw_user1, s)
         THEN SCE_SQL.USER1
    ELSE plain

\* C37 (as stated): when an IDENTIFIER token closes, all its characters take
\* the style its lower-case text has by the lists: WORD for keyword list 1,
\* else WORD2 for keyword list 2, else USER1 for user list 1 when the next
\* character that is not a space is (, and DEFAULT otherwise.
C37_IdentifierStyle ==
    [][IdentifierCloses
       => \A k \in ClosingToken :
             StylesAfter[k] = ListStyle(GetCurrentLowered(styler.text, sc),
                                        SCE_SQL.DEFAULT)]_vars

\* C37 (amended): the same, with IDENTIFIER as the style of a text of no list.
C37_IdentifierStyleKept ==
    [][IdentifierCloses
       => \A k \in ClosingToken :
             StylesAfter[k] = ListStyle(GetCurrentLowered(styler.text, sc),
                                        SCE_SQL.IDENTIFIER)]_vars

\* int( has been lexed: int, of keyword list 2 and of user list 1, is WORD2
C37_Witness ==
    /\ pc = "idle"
    /\ trail.log # <<>>
    /\ styler.text = <<ch.i, ch.n, ch.t, ch.lparen>>
    /\ \A k \in 0..2 : styler.styles[k] = SCE_SQL.WORD2
    /\ styler.styles[3] = SCE_SQL.OPERATOR

\* the folder is about to read the first character of the keyword end or endif
AtEnd ==
    /\ pc = "fold"
    /\ fold.i < fold.endPos
    /\ fold.styleNext = SCE_SQL.WORD
    /\ fold.style # SCE_SQL.WORD
    /\ KeywordAt(styler, fold.i) \in {kw.end, kw.endif}

\* the keyword end at fold.i is followed by one space and if, loop or case
PairAtEnd ==
    /\ KeywordAt(styler, fold.i) = kw.end
    /\ CharOf(styler, fold.i + 3) = ch.space
    /\ StyleAt(styler.styles, fold.i + 4) = SCE_SQL.WORD
    /\ KeywordAt(styler, fold.i + 4) \in {kw.if, kw.loop, kw.case}
    /\ fold.i + 4 < fold.endPos

RECURSIVE FoldTo(_, _, _)
\* the locals after the passes of the loop up to and with position j
FoldTo(d, f, j) ==
    IF f.i > j THEN f ELSE FoldTo(d, NextChar(d.setup, FoldChar(d, f)), j)

\* what end takes from the pending level before clamping
EndDrop ==
    IF /\ IsIntoSelectStatementOrAssignment(fold.sqlStatesCurrentLine)
       /\ ~IsCaseMergeWithoutWhenFound(fold.sqlStatesCurrentLine)
    THEN 2 ELSE 1

\* end lowers the pending level by EndDrop, clamped at SC_FOLDLEVELBASE with
\* the unfolding-ignored flag set by clamping
EndLowers ==
    \E e \in {FoldTo(styler, fold, fold.i)} :
       /\ e.endFound
       /\ IF fold.levelNext - EndDrop < SC_FOLDLEVELBASE
          THEN e.levelNext = SC_FOLDLEVELBASE /\ e.isUnfoldingIgnored
          ELSE e.levelNext = fold.levelNext - EndDrop

\* C38: end and endif lower the pending level by 1, and by 2 when
\* IN_SELECT_OR_ASSIGN is set and CASE_MERGE_NO_WHEN is not, clamped at
\* SC_FOLDLEVELBASE with the unfolding-ignored flag set by clamping; and with
\* fold.sql.only.begin = 1 the pending level after the if, loop or case of
\* END IF, END LOOP, END CASE is the pending level before the END.
C38_EndPairsKeepLevel ==
    AtEnd
    => /\ EndLowers
       /\ (styler.setup.foldOnlyBegin /\ PairAtEnd)
          => FoldTo(styler, fold, fold.i + 4).levelNext = fold.levelNext

\* the same without an assignment or SELECT open at the END
EndPairsKeepLevelPlain ==
    (AtEnd /\ styler.setup.foldOnlyBegin /\ PairAtEnd /\ EndDrop = 1)
    => FoldTo(styler, fold, fold.i + 4).levelNext = fold.levelNext

\* with fold.sql.only.begin = 1, END IF after an assignment at the level of
\* one open block has left the pending level one lower
AssignmentEndIfLowers ==
    /\ styler.setup.foldOnlyBegin
    /\ pc = "fold"
    /\ styler.text = BeginLine \o AssignEndIf
    /\ fold.i = Len(BeginLine) + 11
    /\ fold.levelCurrent = SC_FOLDLEVELBASE + 1
    /\ fold.levelNext = SC_FOLDLEVELBASE

(***************************************************************************)
(* The line-state specification: the operations of SQLStates applied in    *)
(* any order to one state word and one vector of line states.  fold holds  *)
(* the word, the vector, the number of operations made and, as history,    *)
(* the last operation with the word and the vector it was applied to.      *)
(***************************************************************************)
MaxStateOps == 3

MaxStateLine == 2

\* the state words an exploration starts from: count 0, 1, 510 and 511
\* without flags, and counts 0 and 511 with flags
StateWords ==
    {0, 1, MASK_NESTED_CASES - 1, MASK_NESTED_CASES,
     MASK_IGNORE_WHEN + MASK_NESTED_CASES,
     MASK_INTO_SELECT_STATEMENT_OR_ASSIGNEMENT,
     2 * MASK_IGNORE_WHEN - 1 - MASK_NESTED_CASES,
     2 * MASK_IGNORE_WHEN - 1}

Setters ==
    {"IgnoreWhen", "IntoCondition", "IntoExceptionBlock", "IntoDeclareBlock",
     "IntoMergeStatement", "CaseMergeWithoutWhenFound",
     "IntoSelectStatementOrAssignment"}

\* the setter of the given name applied to w
ApplySetter(name, w, enable) ==
    CASE name = "IgnoreWhen" -> IgnoreWhen(w, enable)
      [] name = "IntoCondition" -> IntoCondition(w, enable)
      [] name = "IntoExceptionBlock" -> IntoExceptionBlock(w, enable)
      [] name = "IntoDeclareBlock" -> IntoDeclareBlock(w, enable)
      [] name = "IntoMergeStatement" -> IntoMergeStatement(w, enable)
      [] name = "CaseMergeWithoutWhenFound" -> CaseMergeWithoutWhenFound(w, enable)
      [] name = "IntoSelectStatementOrAssignment" ->
            IntoSelectStatementOrAssignment(w, enable)

\* the bit of the enum that the setter of the given name is written with
MaskOf(name) ==
    CASE name = "IgnoreWhen" -> MASK_IGNORE_WHEN
      [] name = "IntoCondition" -> MASK_INTO_CONDITION
      [] name = "IntoExceptionBlock" -> MASK_INTO_EXCEPTION
      [] name = "IntoDeclareBlock" -> MASK_INTO_DECLARE
      [] name = "IntoMergeStatement" -> MASK_MERGE_STATEMENT
      [] name = "CaseMergeWithoutWhenFound" -> MASK_CASE_MERGE_WITHOUT_WHEN_FOUND
      [] name = "IntoSelectStatementOrAssignment" ->
            MASK_INTO_SELECT_STATEMENT_OR_ASSIGNEMENT

StateOp(op, enable, line) ==
    [op |-> op, enable |-> enable, line |-> line,
     word |-> fold.sqlStatesCurrentLine, vector |-> fold.sqlStatement]

InitStates ==
    /\ InitRE
    /\ styler = NoDocument
    /\ sc = <<>>
    /\ trail = NoTrail
    /\ pc = "states"
    /\ \E w \in StateWords :
          fold = [sqlStatesCurrentLine |-> w, sqlStatement |-> <<>>, ops |-> 0,
                  last |-> [op |-> "new", enable |-> FALSE, line |-> 0,
                            word |-> w, vector |-> <<>>]]

\* one operation: the word and the vector it leaves
Operation(op, enable, line, w, vector) ==
    /\ pc = "states"
    /\ fold.ops < MaxStateOps
    /\ fold' = [sqlStatesCurrentLine |-> w, sqlStatement |-> vector,
                ops |-> fold.ops + 1, last |-> StateOp(op, enable, line)]
    /\ UNCHANGED <<styler, sc, pc, trail>>
    /\ UNCHANGED reVars

CaseBegins ==
    Operation("BeginCaseBlock", FALSE, 0, BeginCaseBlock(fold.sqlStatesCurrentLine),
              fold.sqlStatement)

CaseEnds ==
    Operation("EndCaseBlock", FALSE, 0, EndCaseBlock(fold.sqlStatesCurrentLine),
              fold.sqlStatement)

FlagSet ==
    \E name \in Setters : \E enable \in BOOLEAN :
       Operation(name, enable, 0,
                 ApplySetter(name, fold.sqlStatesCurrentLine, enable),
                 fold.sqlStatement)

LineSet ==
    \E line \in 0..MaxStateLine :
       Operation("Set", FALSE, line, fold.sqlStatesCurrentLine,
                 SQLStatesSet(fold.sqlStatement, line, fold.sqlStatesCurrentLine))

NextStates == CaseBegins \/ CaseEnds \/ FlagSet \/ LineSet

SpecStates == InitStates /\ [][NextStates]_vars

\* the bits 9..15 of a state word
FlagBits(w) == w \div (MASK_NESTED_CASES + 1)

\* C39: BeginCaseBlock adds 1 to the NESTED_CASES field and leaves the word
\* as it is when the field is 511, EndCaseBlock takes 1 from it and leaves
\* the word as it is when the field is 0; neither changes bits 9..15, a flag
\* setter gives its own bit the value asked for and changes no other bit,
\* and the word stays a 16-bit value with its field in 0..511.
C39_NestedCasesSaturate ==
    pc = "states"
    => \E w \in {fold.sqlStatesCurrentLine} : \E b \in {fold.last.word} :
          /\ w \in 0..(2 * MASK_IGNORE_WHEN - 1)
          /\ NestedCases(w) \in 0..MASK_NESTED_CASES
          /\ fold.last.op = "BeginCaseBlock"
             => /\ FlagBits(w) = FlagBits(b)
                /\ NestedCases(w) = IF NestedCases(b) = MASK_NESTED_CASES
                                    THEN MASK_NESTED_CASES ELSE NestedCases(b) + 1
          /\ fold.last.op = "EndCaseBlock"
             => /\ FlagBits(w) = FlagBits(b)
                /\ NestedCases(w) = IF NestedCases(b) = 0 THEN 0
                                    ELSE NestedCases(b) - 1
          /\ fold.last.op \in Setters
             => /\ Has(w, MaskOf(fold.last.op)) = fold.last.enable
                /\ NestedCases(w) = NestedCases(b)
                /\ \A name \in Setters \ {fold.last.op} :
                      Has(w, MaskOf(name)) = Has(b, MaskOf(name))

\* BeginCaseBlock has been applied to a word of count 511 with a flag set,
\* after a flag setter
C39_Witness ==
    /\ pc = "states"
    /\ fold.ops >= 2
    /\ fold.last.op = "BeginCaseBlock"
    /\ NestedCases(fold.last.word) = MASK_NESTED_CASES
    /\ FlagBits(fold.last.word) # 0
    /\ fold.sqlStatesCurrentLine = fold.last.word

\* the vector after Set(line, s) on the vector before: s at index line in a
\* vector of line + 1 entries, the entries before it kept or 0
Stored(before, line, s, after) ==
    /\ Len(after) = line + 1
    /\ after[line + 1] = s
    /\ \A k \in 1..line : after[k] = IF k <= Len(before) THEN before[k] ELSE 0

\* C40 (as stated): Set(line, s) stores s at index line, resizing the vector
\* to line + 1, exactly when the vector is non-empty or s is zero, and leaves
\* the vector as it is otherwise.
C40_SetGuard ==
    (pc = "states" /\ fold.last.op = "Set")
    => IF Len(fold.last.vector) # 0 \/ fold.last.word = 0
       THEN Stored(fold.last.vector, fold.last.line, fold.last.word, fold.sqlStatement)
       ELSE fold.sqlStatement = fold.last.vector

\* C40 (amended): Set(line, s) stores s at index line, resizing the vector to
\* line + 1, exactly when the vector is non-empty or s is not zero, and
\* leaves the vector as it is otherwise.
C40_SetGuardNonZero ==
    (pc = "states" /\ fold.last.op = "Set")
    => IF Len(fold.last.vector) # 0 \/ fold.last.word # 0
       THEN Stored(fold.last.vector, fold.last.line, fold.last.word, fold.sqlStatement)
       ELSE fold.sqlStatement = fold.last.vector

\* Set(1, s) with s not zero has grown the empty vector to two entries
C40_Witness ==
    /\ pc = "states"
    /\ fold.last.op = "Set"
    /\ fold.last.vector = <<>>
    /\ fold.last.word # 0
    /\ fold.last.line = 1
    /\ fold.sqlStatement = <<0, fold.last.word>>

====
